---------------------------- MODULE Spec2Model ----------------------------
(***************************************************************************)
(* Model of src/app/gearx/gear.py: the constructors of Gear, ExternalGear   *)
(* and InternalGear, get_profile_points, and the topology tables and the   *)
(* rotational stitching loop of ExternalGear.generate_mesh and             *)
(* InternalGear.generate_mesh.                                             *)
(*                                                                         *)
(* Arrays are functions on 0..n-1, so that every index of the model is the *)
(* index the source writes.  A node of the assembled mesh is the pair      *)
(* <<r, j>>: local node j of the single-tooth mesh rotated by rot_phi[r].  *)
(* The branch conditions (delta_angle < 1e-12, rc >= t[2]) depend on real  *)
(* geometry and are an input: branch_test, and refit_branch for the t that *)
(* get_profile_points stores (see RefitConverged).                         *)
(***************************************************************************)
EXTENDS Integers, Sequences, FiniteSets, TLC

VARIABLES
    gear,                 \* "External" or "Internal": the class of the instance
    args,                 \* the arguments of the constructor call
    attrs,                \* the names of the attributes stored on the instance
    z,                    \* self.z
    n1, n2, n3, na, nf,   \* self.n1 .. self.nf
    m_n,                  \* self.m_n
    alpha_n, beta,        \* self.alpha_n, self.beta: <<v, unit>>, v in thousandths
    outer_diam,           \* self.outer_diam (InternalGear)
    self_t,               \* self.t: "ctor" (the 3 unknowns of __init__), "profile"
                          \* (the 4 unknowns of get_profile_points), "absent"
    converges,            \* the fsolve calls on this instance converge
    branch_test,          \* delta_angle < 1e-12, resp. rc >= self.t[2], as it
                          \* evaluates on the instance now
    refit_branch,         \* rc >= t[2] for the t that get_profile_points stores
    mod_z,                \* the module-level name z read by ExternalGear.generate_mesh
    mod_outer_diam,       \* the module-level name outer_diam read by
                          \* InternalGear.generate_mesh
    module_defines,       \* the module-level names that are defined
    pc,                   \* position inside the constructor or generate_mesh
    first_branch,         \* the `if` of the topology branch is taken by this call
    profile_len,          \* len of the array get_profile_points returned last, 0: none
    last_sel,             \* the branch the last rc >= t[2] test selected
    first_sel,            \* history: the branch the first rc >= t[2] test selected
    first_points,         \* history: len of the first profile returned
    solves,               \* history: number of fsolve calls on the four-unknown
                          \* system of InternalGear.get_profile_points
    first_mesh,           \* history: node and cell count of the first mesh returned
    key_points,           \* key_points as symbolic points
    edge,                 \* edge[k] = <<a, b>>
    half_edge,            \* half_edge[h] = <<dest, region, next, prev, opposite>>
    line,                 \* line[k] = number of samples of boundary line k
    line_ends,            \* line_ends[k] = <<first sample, last sample>> of line k
    key_num,              \* len(key_points)
    origin_cell,          \* quad_mesh.cell
    tooth_node,           \* sequence of node labels <<r, j>>
    tooth_cell,           \* sequence of cells, each a 4-tuple of node indices
    trans_matrix,
    origin_trans_matrix,
    single_node_num,
    temp_node,            \* the nodes every copy but the last appends
    temp_node_last,       \* the nodes the last copy appends
    i,                    \* loop variable of the middle-teeth loop
    copies,               \* history: for each copy built, the trans_matrix used for
                          \* its cells, the node count before it, its rot_phi index
                          \* and the nodes it appended
    ainv_x,               \* the argument x of the running call of InternalGear.ainv
    alpha, temp,          \* the locals alpha and temp of InternalGear.ainv, in
                          \* thousandths of a radian
    mesh                  \* self.mesh: None or [node |-> .., cell |-> ..]

\* the configuration of the instance and what is fixed with it
instance == <<gear, args, attrs, z, n1, n2, n3, na, nf, m_n, alpha_n, beta,
              outer_diam, converges, refit_branch>>

\* the names of the module namespace
module_names == <<mod_z, mod_outer_diam, module_defines>>

\* what get_profile_points reads and writes besides the configuration
profile_state == <<self_t, branch_test, profile_len, last_sel, first_sel,
                   first_points, solves>>

\* the locals of generate_mesh
locals == <<first_branch, key_points, edge, half_edge, line, line_ends, key_num,
            origin_cell, tooth_node, tooth_cell, trans_matrix, origin_trans_matrix,
            single_node_num, temp_node, temp_node_last, i, copies>>

\* the argument and the locals of InternalGear.ainv
ainv_locals == <<ainv_x, alpha, temp>>

vars == <<instance, module_names, profile_state, locals, ainv_locals, pc,
          first_mesh, mesh>>

\* Bounds of the model.
MaxZ == 4
MaxSeg == 2
MaxArg == 40

\* self.mesh = None: no mesh (a mesh has at least one node)
None == [node |-> << >>, cell |-> << >>]

-----------------------------------------------------------------------------
(* numpy helpers *)

\* np.arange(n)
Arange(n) == [j \in 0..(n - 1) |-> j]

\* len(a)
ArrLen(a) == Cardinality(DOMAIN a)

\* a[lo:hi] += d
AddSlice(a, lo, hi, d) ==
    [j \in DOMAIN a |-> IF lo <= j /\ j < hi THEN a[j] + d ELSE a[j]]

\* a[lo:hi] = src[slo:slo + (hi - lo)], the right-hand side read before the write
CopySlice(a, lo, hi, src, slo) ==
    [j \in DOMAIN a |-> IF lo <= j /\ j < hi THEN src[slo + (j - lo)] ELSE a[j]]

\* a[j] = v
Put(a, j, v) == [a EXCEPT ![j] = v]

\* column[2*es + par] = vals, one value per entry of es
SetCol(col, es, par, vals) ==
    [h \in DOMAIN col |->
        IF \E q \in 1..Len(es) : 2 * es[q] + par = h
        THEN vals[CHOOSE q \in 1..Len(es) : 2 * es[q] + par = h]
        ELSE col[h]]

\* column[2*es + par] = v, the same value for every entry of es
SetColAll(col, es, par, v) ==
    [h \in DOMAIN col |->
        IF \E q \in 1..Len(es) : 2 * es[q] + par = h THEN v ELSE col[h]]

\* column[par::2] = vals
Interleave(evens, odds) ==
    [h \in 0..(2 * Len(evens) - 1) |->
        IF h % 2 = 0 THEN evens[(h \div 2) + 1] ELSE odds[(h \div 2) + 1]]

\* a Python list literal as an array on 0..n-1
A0(seq) == [j \in 0..(Len(seq) - 1) |-> seq[j + 1]]

-----------------------------------------------------------------------------
(* Half-edge tables.  Column 0 is the destination key point, column 1 the   *)
(* region (-1 outside), column 2 next, column 3 prev, column 4 opposite.    *)

\* half_edge[::2, 0] = edge[:, 1]; half_edge[1::2, 0] = edge[:, 0];
\* half_edge[::2, 4] = 2k + 1; half_edge[1::2, 4] = 2k; then columns 1, 2, 3
HalfEdgeTable(e, region, nxt, prv) ==
    [h \in 0..(2 * Len(e) - 1) |->
        << IF h % 2 = 0 THEN e[(h \div 2) + 1][2] ELSE e[(h \div 2) + 1][1],
           region[h],
           nxt[h],
           prv[h],
           IF h % 2 = 0 THEN h + 1 ELSE h - 1 >>]

\* np.zeros(len(edge) * 2) for one column
ZeroCol(e) == [h \in 0..(2 * Len(e) - 1) |-> 0]

\* ExternalGear, delta_angle < 1e-12
ExtDegEdge ==
    << <<0, 1>>, <<1, 2>>, <<2, 3>>, <<10, 7>>, <<7, 8>>, <<8, 9>>, <<11, 4>>,
       <<4, 5>>, <<5, 6>>, <<10, 0>>, <<7, 1>>, <<8, 2>>, <<9, 3>>, <<11, 10>>,
       <<4, 7>>, <<5, 8>>, <<6, 9>> >>

ExtDegRegion ==
    LET c0  == ZeroCol(ExtDegEdge)
        c1  == SetCol(c0, <<0, 1, 2>>, 0, <<0, 1, 2>>)
        c2  == SetColAll(c1, <<0, 1, 2>>, 1, -1)
        c3  == SetCol(c2, <<3, 4, 5>>, 0, <<3, 4, 5>>)
        c4  == SetCol(c3, <<3, 4, 5>>, 1, <<0, 1, 2>>)
        c5  == SetColAll(c4, <<6, 7, 8>>, 0, -1)
        c6  == SetCol(c5, <<6, 7, 8>>, 1, <<3, 4, 5>>)
        c7  == SetCol(c6, <<10, 11, 14, 15>>, 0, <<1, 2, 4, 5>>)
        c8  == SetCol(c7, <<10, 11, 14, 15>>, 1, <<0, 1, 3, 4>>)
        c9  == SetCol(c8, <<9, 13>>, 0, <<0, 3>>)
        c10 == SetColAll(c9, <<9, 13>>, 1, -1)
        c11 == SetColAll(c10, <<12, 16>>, 0, -1)
    IN  SetCol(c11, <<12, 16>>, 1, <<2, 5>>)

ExtDegNext ==
    Interleave(<<21, 23, 25, 29, 31, 33, 14, 16, 32, 0, 2, 4, 5, 6, 8, 10, 24>>,
               <<19, 1, 3, 18, 20, 22, 26, 28, 30, 27, 7, 9, 11, 12, 13, 15, 17>>)

ExtDegPrev ==
    Interleave(<<18, 20, 22, 26, 28, 30, 27, 12, 14, 7, 9, 11, 32, 13, 15, 17, 16>>,
               <<3, 5, 24, 21, 23, 25, 29, 31, 33, 1, 0, 2, 4, 19, 6, 8, 10>>)

\* len(a[lo:hi]) for an array of n rows (numpy clips the slice to the array)
SliceLen(lo, hi, n) ==
    LET h == IF hi < n THEN hi ELSE n
    IN  IF h > lo THEN h - lo ELSE 0

\* len(points) of ExternalGear.get_profile_points
ExtPointsLen(a1, a2) == (a1 + a2 + 1) * 2

\* the sample count of each entry of `line`
ExtDegLine(a1, a2, a3, aa) ==
    LET np == ExtPointsLen(a1, a2)
    IN  << a3 + 1,
           SliceLen(a1 + a2 + 1, 2 * a1 + a2 + 2, np),
           SliceLen(2 * a1 + a2 + 1, 2 * a1 + 2 * a2 + 2, np),
           a3 + 1,
           a1 + 1,
           a2 + 1,
           a3 + 1,
           SliceLen(0, a1 + 1, np),
           SliceLen(a1, a1 + a2 + 1, np),
           aa + 1, aa + 1, aa + 1, aa + 1, aa + 1, aa + 1, aa + 1, aa + 1 >>

\* ExternalGear, delta_angle >= 1e-12
ExtNormEdge ==
    << <<0, 1>>, <<1, 2>>, <<2, 3>>, <<10, 7>>, <<7, 8>>, <<8, 9>>, <<11, 4>>,
       <<4, 5>>, <<5, 6>>, <<10, 0>>, <<7, 1>>, <<8, 2>>, <<9, 3>>, <<11, 10>>,
       <<4, 7>>, <<5, 8>>, <<6, 9>>, <<12, 13>>, <<14, 15>>, <<0, 12>>,
       <<1, 13>>, <<14, 11>>, <<15, 4>> >>

ExtNormRegion ==
    LET c0  == ZeroCol(ExtNormEdge)
        c1  == SetCol(c0, <<0, 1, 2>>, 0, <<0, 1, 2>>)
        c2  == SetColAll(c1, <<1, 2>>, 1, -1)
        c3  == SetColAll(c2, <<0>>, 1, 6)
        c4  == SetCol(c3, <<3, 4, 5>>, 0, <<3, 4, 5>>)
        c5  == SetCol(c4, <<3, 4, 5>>, 1, <<0, 1, 2>>)
        c6  == SetColAll(c5, <<7, 8>>, 0, -1)
        c7  == SetColAll(c6, <<6>>, 0, 7)
        c8  == SetCol(c7, <<6, 7, 8>>, 1, <<3, 4, 5>>)
        c9  == SetCol(c8, <<10, 11, 14, 15>>, 0, <<1, 2, 4, 5>>)
        c10 == SetCol(c9, <<10, 11, 14, 15>>, 1, <<0, 1, 3, 4>>)
        c11 == SetCol(c10, <<9, 13>>, 0, <<0, 3>>)
        c12 == SetColAll(c11, <<9, 13>>, 1, -1)
        c13 == SetColAll(c12, <<12, 16>>, 0, -1)
        c14 == SetCol(c13, <<12, 16>>, 1, <<2, 5>>)
        c15 == SetColAll(c14, <<17>>, 0, 6)
        c16 == SetColAll(c15, <<17>>, 1, -1)
        c17 == SetColAll(c16, <<18>>, 0, -1)
        c18 == SetColAll(c17, <<18>>, 1, 7)
        c19 == SetCol(c18, <<19, 21>>, 0, <<6, 7>>)
        c20 == SetColAll(c19, <<19, 21>>, 1, -1)
        c21 == SetColAll(c20, <<20, 22>>, 0, -1)
    IN  SetCol(c21, <<20, 22>>, 1, <<6, 7>>)

\* ExtNormNext with the first two entries of half_edge[::2, 2] exchanged
ExtNormNextSwapped ==
    Interleave(<<23, 21, 25, 29, 31, 33, 45, 16, 32, 0, 2, 4, 5, 6, 8, 10, 24,
                 41, 44, 34, 35, 12, 14>>,
               <<38, 40, 3, 18, 20, 22, 26, 28, 30, 27, 7, 9, 11, 43, 13, 15, 17,
                 39, 42, 19, 1, 36, 37>>)

ExtNormNext ==
    Interleave(<<21, 23, 25, 29, 31, 33, 45, 16, 32, 0, 2, 4, 5, 6, 8, 10, 24,
                 41, 44, 34, 35, 12, 14>>,
               <<38, 40, 3, 18, 20, 22, 26, 28, 30, 27, 7, 9, 11, 43, 13, 15, 17,
                 39, 42, 19, 1, 36, 37>>)

ExtNormPrev ==
    Interleave(<<18, 20, 22, 26, 28, 30, 42, 44, 14, 7, 9, 11, 32, 13, 15, 17, 16,
                 38, 43, 1, 3, 37, 36>>,
               <<41, 5, 24, 21, 23, 25, 29, 31, 33, 39, 0, 2, 4, 19, 6, 8, 10,
                 40, 45, 35, 34, 27, 12>>)

ExtNormLine(a1, a2, a3, aa, af) ==
    ExtDegLine(a1, a2, a3, aa) \o
    << a3 + 1, a3 + 1, af + 1, af + 1, af + 1, af + 1 >>

\* InternalGear, rc >= t[2]
IntArcEdge ==
    << <<0, 1>>, <<1, 2>>, <<2, 3>>, <<4, 5>>, <<5, 6>>, <<6, 7>>, <<8, 9>>,
       <<9, 12>>, <<10, 11>>, <<11, 12>>, <<8, 0>>, <<9, 1>>, <<12, 2>>,
       <<13, 3>>, <<4, 10>>, <<5, 11>>, <<6, 12>>, <<7, 13>>, <<12, 13>> >>

\* the region assignments the two InternalGear branches have in common
IntCommonRegion(c0) ==
    LET c1  == SetCol(c0, <<0, 1, 2>>, 0, <<0, 1, 2>>)
        c2  == SetColAll(c1, <<0, 1, 2>>, 1, -1)
        c3  == SetColAll(c2, <<3, 4, 5>>, 0, -1)
        c4  == SetCol(c3, <<3, 4, 5>>, 1, <<3, 4, 5>>)
        c5  == SetColAll(c4, <<6, 7>>, 0, -1)
        c6  == SetCol(c5, <<6, 7>>, 1, <<0, 1>>)
        c7  == SetCol(c6, <<8, 9>>, 0, <<3, 4>>)
        c8  == SetColAll(c7, <<8, 9>>, 1, -1)
        c9  == SetCol(c8, <<10, 14>>, 0, <<0, 3>>)
        c10 == SetColAll(c9, <<10, 14>>, 1, -1)
        c11 == SetColAll(c10, <<13, 17>>, 0, -1)
        c12 == SetCol(c11, <<13, 17>>, 1, <<2, 5>>)
        c13 == SetCol(c12, <<11, 12, 15, 16>>, 0, <<1, 2, 4, 5>>)
    IN  SetCol(c13, <<11, 12, 15, 16>>, 1, <<0, 1, 3, 4>>)

IntArcRegion ==
    LET c14 == IntCommonRegion(ZeroCol(IntArcEdge))
        c15 == SetColAll(c14, <<18>>, 0, 5)
    IN  SetColAll(c15, <<18>>, 1, 2)

IntArcNext ==
    Interleave(<<23, 25, 27, 8, 10, 34, 14, 19, 31, 33, 0, 2, 4, 5, 16, 18, 36,
                 26, 35>>,
               <<21, 1, 3, 28, 30, 32, 20, 22, 29, 17, 12, 13, 15, 37, 6, 7, 9,
                 11, 24>>)

IntArcPrev ==
    Interleave(<<20, 22, 24, 29, 6, 8, 21, 12, 28, 30, 13, 15, 37, 34, 7, 9, 11,
                 10, 32>>,
               <<3, 5, 26, 31, 33, 35, 23, 25, 19, 14, 1, 0, 2, 4, 17, 16, 18,
                 36, 27>>)

\* len(points) of InternalGear.get_profile_points, rc >= t[2]
IntArcPointsLen(a1, a2) == 2 * (a1 + a2) + 1

IntArcLine(a1, a2, a3, aa) ==
    LET np == IntArcPointsLen(a1, a2)
    IN  << a1 + 1, a2 + 1, a3 + 1, a1 + 1, a2 + 1, a3 + 1,
           SliceLen(a1 + 2 * a2, np, np),
           SliceLen(a1 + a2, a1 + 2 * a2 + 1, np),
           SliceLen(0, a1 + 1, np),
           SliceLen(a1, a1 + a2 + 1, np),
           aa + 1, aa + 1, aa + 1, aa + 1, aa + 1, aa + 1, aa + 1, aa + 1,
           a3 + 1 >>

\* InternalGear, rc < t[2]
IntFilletEdge ==
    << <<0, 1>>, <<1, 2>>, <<2, 3>>, <<4, 5>>, <<5, 6>>, <<6, 7>>, <<8, 9>>,
       <<9, 14>>, <<10, 11>>, <<11, 16>>, <<8, 0>>, <<9, 1>>, <<14, 2>>,
       <<15, 3>>, <<4, 10>>, <<5, 11>>, <<6, 16>>, <<7, 17>>, <<14, 15>>,
       <<12, 13>>, <<16, 17>>, <<12, 14>>, <<16, 12>>, <<13, 15>>, <<17, 13>> >>

\* IntFilletRegion with half-edge 40 put in region 6 instead of region 5
IntFilletRegionWrong ==
    LET c14 == IntCommonRegion(ZeroCol(IntFilletEdge))
        c15 == SetCol(c14, <<18, 19, 20>>, 0, <<6, 7, 6>>)
        c16 == SetCol(c15, <<18, 19, 20>>, 1, <<2, 6, 7>>)
        c17 == SetCol(c16, <<21, 22>>, 0, <<6, 7>>)
        c18 == SetColAll(c17, <<21, 22>>, 1, -1)
        c19 == SetColAll(c18, <<23, 24>>, 0, -1)
    IN  SetCol(c19, <<23, 24>>, 1, <<6, 7>>)

IntFilletRegion ==
    LET c14 == IntCommonRegion(ZeroCol(IntFilletEdge))
        c15 == SetCol(c14, <<18, 19, 20>>, 0, <<6, 7, 5>>)
        c16 == SetCol(c15, <<18, 19, 20>>, 1, <<2, 6, 7>>)
        c17 == SetCol(c16, <<21, 22>>, 0, <<6, 7>>)
        c18 == SetColAll(c17, <<21, 22>>, 1, -1)
        c19 == SetColAll(c18, <<23, 24>>, 0, -1)
    IN  SetCol(c19, <<23, 24>>, 1, <<6, 7>>)

IntFilletNext ==
    Interleave(<<23, 25, 27, 8, 10, 34, 14, 43, 31, 33, 0, 2, 4, 5, 16, 18, 40,
                 48, 47, 49, 35, 36, 38, 26, 46>>,
               <<21, 1, 3, 28, 30, 32, 20, 22, 29, 17, 12, 13, 15, 37, 6, 7, 9,
                 11, 24, 42, 44, 45, 19, 39, 41>>)

IntFilletPrev ==
    Interleave(<<20, 22, 24, 29, 6, 8, 21, 12, 28, 30, 13, 15, 37, 46, 7, 9, 11,
                 10, 42, 44, 32, 39, 41, 48, 34>>,
               <<3, 5, 26, 31, 33, 35, 23, 25, 19, 45, 1, 0, 2, 4, 17, 16, 18,
                 40, 27, 47, 49, 14, 43, 36, 38>>)

\* len(points) of InternalGear.get_profile_points, rc < t[2]
IntFilletPointsLen(a1, a2, af) == 2 * (a1 + a2 + af) + 1

\* IntFilletLine with line[22] taken as points[n1 + n2:n1 + n2 + nf]
IntFilletLineShort(a1, a2, a3, aa, af) ==
    LET np == IntFilletPointsLen(a1, a2, af)
    IN  << a1 + 1, a2 + 1, a3 + 1, a1 + 1, a2 + 1, a3 + 1,
           SliceLen(a1 + 2 * a2 + 2 * af, np, np),
           SliceLen(a1 + a2 + 2 * af, a1 + 2 * a2 + 2 * af + 1, np),
           SliceLen(0, a1 + 1, np),
           SliceLen(a1, a1 + a2 + 1, np),
           aa + 1, aa + 1, aa + 1, aa + 1, aa + 1, aa + 1, aa + 1, aa + 1,
           a3 + 1, a3 + 1, a3 + 1,
           SliceLen(a1 + a2 + af, a1 + a2 + 2 * af + 1, np),
           SliceLen(a1 + a2, a1 + a2 + af, np),
           af + 1, af + 1 >>

IntFilletLine(a1, a2, a3, aa, af) ==
    LET np == IntFilletPointsLen(a1, a2, af)
    IN  << a1 + 1, a2 + 1, a3 + 1, a1 + 1, a2 + 1, a3 + 1,
           SliceLen(a1 + 2 * a2 + 2 * af, np, np),
           SliceLen(a1 + a2 + 2 * af, a1 + 2 * a2 + 2 * af + 1, np),
           SliceLen(0, a1 + 1, np),
           SliceLen(a1, a1 + a2 + 1, np),
           aa + 1, aa + 1, aa + 1, aa + 1, aa + 1, aa + 1, aa + 1, aa + 1,
           a3 + 1, a3 + 1, a3 + 1,
           SliceLen(a1 + a2 + af, a1 + a2 + 2 * af + 1, np),
           SliceLen(a1 + a2, a1 + a2 + af + 1, np),
           af + 1, af + 1 >>

\* the number of key points of each branch (the rows of key_points)
KeyNum(g, fb) ==
    IF g = "External" THEN (IF fb THEN 12 ELSE 16) ELSE (IF fb THEN 14 ELSE 18)

-----------------------------------------------------------------------------
(* Points as symbols.  A profile sample is <<"points", k>>; a point given   *)
(* by a radius and an angle is <<"polar", r, a>>, where the angle of sample *)
(* k is <<"arg", k>> and pi minus it <<"pi-arg", k>>.  Where the source     *)
(* places a sample on a known circle (the root circle r_f and the tip       *)
(* circle for ExternalGear, the tip circle r_a for InternalGear), the polar *)
(* point at that sample's angle is the sample.                              *)

Pt(k) == <<"points", k>>

\* np.arctan2(points[k, 1], points[k, 0]) and pi minus it
Arg(k) == <<"arg", k>>
PiMinusArg(k) == <<"pi-arg", k>>

\* r * (cos(a), sin(a)) for a profile whose sample k has radius prof.rad[k] and
\* mirror image prof.mir[k]
Polar(prof, r, a) ==
    IF a[1] = "arg" /\ prof.rad[a[2]] = r THEN Pt(a[2])
    ELSE IF a[1] = "pi-arg" /\ prof.rad[a[2]] = r THEN Pt(prof.mir[a[2]])
    ELSE <<"polar", r, a>>

\* the two end samples of np.linspace(p, q, n)
Linspace(p, q) == <<p, q>>

\* the two end samples of points[lo:hi]
PointsSlice(lo, hi, n) == << Pt(lo), Pt((IF hi < n THEN hi ELSE n) - 1) >>

\* the two end samples of a[::-1]
Reversed(e) == << e[2], e[1] >>

\* the two end samples of r * (cos(theta), sin(theta)), theta = np.linspace(a, b, n)
Arc(prof, r, a, b) == << Polar(prof, r, a), Polar(prof, r, b) >>

\* A coordinate of a profile sample is <<s, k>>: s times the value the curve
\* functions return for sample k of the first flank (s = 0: the constant 0).
Coord(k) == <<1, k>>

\* -c
Neg(c) == <<-c[1], c[2]>>

\* rows 0..h-1 of points, as get_transition_points and get_involute_points fill
\* them: (x_k, y_k)
Flank(h) == [k \in 0..(h - 1) |-> [x |-> Coord(k), y |-> Coord(k)]]

\* ExternalGear.get_profile_points with the mirrored half written in reversed
\* order
ExtPointsReversed(a1, a2) ==
    LET h == a1 + a2 + 1
        p == Flank(h)
    IN  [k \in 0..(2 * h - 1) |->
            IF k < h THEN p[k]
            ELSE [x |-> Neg(p[2 * h - 1 - k].x), y |-> p[2 * h - 1 - k].y]]

\* ExternalGear.get_profile_points: points[h:, 0] = -points[0:h, 0] and
\* points[h:, 1] = points[0:h, 1] for h = n2 + n1 + 1
ExtPoints(a1, a2) ==
    LET h == a1 + a2 + 1
        p == Flank(h)
    IN  [k \in 0..(2 * h - 1) |->
            IF k < h THEN p[k] ELSE [x |-> Neg(p[k - h].x), y |-> p[k - h].y]]

\* InternalGear.get_profile_points, either branch, for h = n1 + n2 or
\* h = n1 + n2 + nf: points[h] = (0, 0.5 * df11), points[h+1:, 0] =
\* -points[0:h, 0][::-1] and points[h+1:, 1] = points[0:h, 1][::-1]
IntPoints(h) ==
    LET p == Flank(h)
    IN  [k \in 0..(2 * h) |->
            IF k < h THEN p[k]
            ELSE IF k = h THEN [x |-> <<0, h>>, y |-> Coord(h)]
            ELSE [x |-> Neg(p[h - 1 - (k - h - 1)].x), y |-> p[h - 1 - (k - h - 1)].y]]

\* ExternalGear.get_profile_points: points[0:n2+1] are the samples of
\* get_transition_points, points[n2+1:n2+n1+1] those of get_involute_points
ExtTransitionSamples(a2) == 0..a2

ExtInvoluteSamples(a1, a2) == (a2 + 1)..(a1 + a2)

\* ExternalGear.get_profile_points: samples 0..n2 on the transition curve from
\* t4 = 1.5 pi, where the radius is r - ha_cutter + m_n x_t = r_f, samples up to
\* n1 + n2 on the involute ending at t2, where the radius is effective_da / 2,
\* and the mirror image of sample k at k + n1 + n2 + 1
ExtProfile(a1, a2) ==
    LET h == a1 + a2 + 1
        half(k) == IF k < h THEN k ELSE k - h
    IN  [len |-> ExtPointsLen(a1, a2),
         rad |-> [k \in 0..(2 * h - 1) |->
                     IF half(k) = 0 THEN <<"rf">>
                     ELSE IF half(k) = a1 + a2 THEN <<"ra">>
                     ELSE <<"r", half(k)>>],
         mir |-> [k \in 0..(2 * h - 1) |-> IF k < h THEN k + h ELSE k - h]]

\* kp_0 .. kp_11
ExtDegKeyPoints(a1, a2) ==
    LET prof == ExtProfile(a1, a2)
        t_ff == Arg(0)
        t_f  == PiMinusArg(0)
    IN  << Polar(prof, <<"r_inner">>, t_f),
           Pt(a1 + a2 + 1),
           Pt(2 * a1 + a2 + 1),
           Pt(prof.len - 1),
           Pt(0),
           Pt(a1),
           Pt(a1 + a2),
           <<"axis", "t_1">>,
           <<"axis", "t_1 + t_2">>,
           Polar(prof, <<"ra">>, <<"pi/2">>),
           Polar(prof, <<"r_inner">>, <<"pi/2">>),
           Polar(prof, <<"r_inner">>, t_ff) >>

\* kp_0 .. kp_15
ExtNormKeyPoints(a1, a2) ==
    LET prof == ExtProfile(a1, a2)
    IN  ExtDegKeyPoints(a1, a2) \o
        << Polar(prof, <<"r_inner">>, <<"kp_12_angle">>),
           Polar(prof, <<"rf">>, <<"kp_12_angle">>),
           Polar(prof, <<"r_inner">>, <<"kp_14_angle">>),
           Polar(prof, <<"rf">>, <<"kp_14_angle">>) >>

\* ExtDegLineEnds with line[7] taken as points[:n2 + 1]
ExtDegLineEndsByN2(a1, a2) ==
    LET prof == ExtProfile(a1, a2)
        kp   == A0(ExtDegKeyPoints(a1, a2))
        np   == prof.len
        t_a  == Arg(np - 1)
        t_aa == PiMinusArg(np - 1)
        t_ff == Arg(0)
        t_f  == PiMinusArg(0)
    IN  << Linspace(kp[0], kp[1]),
           PointsSlice(a1 + a2 + 1, 2 * a1 + a2 + 2, np),
           PointsSlice(2 * a1 + a2 + 1, 2 * a1 + 2 * a2 + 2, np),
           Linspace(kp[10], kp[7]),
           Linspace(kp[7], kp[8]),
           Linspace(kp[8], kp[9]),
           Linspace(kp[11], kp[4]),
           PointsSlice(0, a2 + 1, np),
           PointsSlice(a1, a1 + a2 + 1, np),
           Arc(prof, <<"r_inner">>, <<"pi/2">>, t_f),
           Linspace(kp[7], kp[1]),
           Linspace(kp[8], kp[2]),
           Arc(prof, <<"ra">>, <<"pi/2">>, t_a),
           Arc(prof, <<"r_inner">>, t_ff, <<"pi/2">>),
           Linspace(kp[4], kp[7]),
           Linspace(kp[5], kp[8]),
           Arc(prof, <<"ra">>, t_aa, <<"pi/2">>) >>

\* the end samples of each entry of `line`
ExtDegLineEnds(a1, a2) ==
    LET prof == ExtProfile(a1, a2)
        kp   == A0(ExtDegKeyPoints(a1, a2))
        np   == prof.len
        t_a  == Arg(np - 1)
        t_aa == PiMinusArg(np - 1)
        t_ff == Arg(0)
        t_f  == PiMinusArg(0)
    IN  << Linspace(kp[0], kp[1]),
           PointsSlice(a1 + a2 + 1, 2 * a1 + a2 + 2, np),
           PointsSlice(2 * a1 + a2 + 1, 2 * a1 + 2 * a2 + 2, np),
           Linspace(kp[10], kp[7]),
           Linspace(kp[7], kp[8]),
           Linspace(kp[8], kp[9]),
           Linspace(kp[11], kp[4]),
           PointsSlice(0, a1 + 1, np),
           PointsSlice(a1, a1 + a2 + 1, np),
           Arc(prof, <<"r_inner">>, <<"pi/2">>, t_f),
           Linspace(kp[7], kp[1]),
           Linspace(kp[8], kp[2]),
           Arc(prof, <<"ra">>, <<"pi/2">>, t_a),
           Arc(prof, <<"r_inner">>, t_ff, <<"pi/2">>),
           Linspace(kp[4], kp[7]),
           Linspace(kp[5], kp[8]),
           Arc(prof, <<"ra">>, t_aa, <<"pi/2">>) >>

ExtNormLineEnds(a1, a2) ==
    LET prof == ExtProfile(a1, a2)
        kp   == A0(ExtNormKeyPoints(a1, a2))
        t_ff == Arg(0)
        t_f  == PiMinusArg(0)
    IN  ExtDegLineEnds(a1, a2) \o
        << Linspace(kp[12], kp[13]),
           Linspace(kp[14], kp[15]),
           Arc(prof, <<"r_inner">>, <<"kp_12_angle">>, t_f),
           Arc(prof, <<"rf">>, <<"kp_12_angle">>, t_f),
           Arc(prof, <<"r_inner">>, t_ff, <<"kp_14_angle">>),
           Arc(prof, <<"rf">>, t_ff, <<"kp_14_angle">>) >>

\* InternalGear.get_profile_points, both branches: sample 0 on the involute at
\* t1, where the radius is d_a / 2 = r_a, the middle sample (0, df11 / 2) and the
\* mirror image of sample k at len - 1 - k
IntProfile(len) ==
    [len |-> len,
     rad |-> [k \in 0..(len - 1) |->
                 IF k = 0 \/ k = len - 1 THEN <<"ra">>
                 ELSE IF 2 * k = len - 1 THEN <<"df11/2">>
                 ELSE <<"r", IF 2 * k < len THEN k ELSE len - 1 - k>>],
     mir |-> [k \in 0..(len - 1) |-> len - 1 - k]]

\* the point (-x, y) of a point (x, y) at angle phi00: phi01 = pi - phi00
MirrorPt(p) ==
    IF p[1] = "polar" /\ p[3] = <<"phi00">> THEN <<"polar", p[2], <<"phi01">>>>
    ELSE <<"mirror", p>>

\* outer_diam / 2 for the value od of the name outer_diam
OuterRadius(od) == <<"outer_diam/2", od>>

\* kp0 .. kp7, the same statements in both branches
IntRimKeyPoints(prof, od) ==
    LET kp0 == Polar(prof, <<"ra">>, <<"phi00">>)
        kp3 == Polar(prof, OuterRadius(od), <<"phi00">>)
        kp1 == <<"between", kp0, kp3, "t2">>
        kp2 == <<"between", kp0, kp3, "t1">>
    IN  << kp0, kp1, kp2, kp3, MirrorPt(kp0), MirrorPt(kp1), MirrorPt(kp2),
           MirrorPt(kp3) >>

\* kp0 .. kp13, rc >= t[2]
IntArcKeyPoints(a1, a2, od) ==
    LET prof == IntProfile(IntArcPointsLen(a1, a2))
    IN  IntRimKeyPoints(prof, od) \o
        << Pt(prof.len - 1),
           Pt(a1 + 2 * a2),
           Pt(0),
           Pt(a1),
           Pt(a1 + a2),
           Polar(prof, OuterRadius(od), <<"pi/2">>) >>

IntArcLineEnds(a1, a2, od) ==
    LET prof  == IntProfile(IntArcPointsLen(a1, a2))
        kp    == A0(IntArcKeyPoints(a1, a2, od))
        e     == A0(IntArcEdge)
        np    == prof.len
        lin(k) == Linspace(kp[e[k][1]], kp[e[k][2]])
        phi20 == Arg(np - 1)
        phi21 == Arg(0)
    IN  << lin(0), lin(1), lin(2), lin(3), lin(4), lin(5),
           Reversed(PointsSlice(a1 + 2 * a2, np, np)),
           Reversed(PointsSlice(a1 + a2, a1 + 2 * a2 + 1, np)),
           PointsSlice(0, a1 + 1, np),
           PointsSlice(a1, a1 + a2 + 1, np),
           Arc(prof, <<"ra">>, phi20, <<"phi00">>),
           lin(11),
           lin(12),
           Arc(prof, OuterRadius(od), <<"pi/2">>, <<"phi00">>),
           Arc(prof, <<"ra">>, <<"phi01">>, phi21),
           lin(15),
           lin(16),
           Arc(prof, OuterRadius(od), <<"phi01">>, <<"pi/2">>),
           lin(18) >>

\* kp0 .. kp17, rc < t[2]
IntFilletKeyPoints(a1, a2, af, od) ==
    LET prof  == IntProfile(IntFilletPointsLen(a1, a2, af))
        phi10 == Arg(a1 + a2 + 2 * af)
        phi11 == Arg(a1 + a2)
    IN  IntRimKeyPoints(prof, od) \o
        << Pt(prof.len - 1),
           Pt(a1 + 2 * a2 + 2 * af),
           Pt(0),
           Pt(a1),
           Pt(a1 + a2 + af),
           Polar(prof, OuterRadius(od), <<"pi/2">>),
           Pt(a1 + a2 + 2 * af),
           Polar(prof, OuterRadius(od), phi10),
           Pt(a1 + a2),
           Polar(prof, OuterRadius(od), phi11) >>

IntFilletLineEnds(a1, a2, af, od) ==
    LET prof  == IntProfile(IntFilletPointsLen(a1, a2, af))
        kp    == A0(IntFilletKeyPoints(a1, a2, af, od))
        e     == A0(IntFilletEdge)
        np    == prof.len
        lin(k) == Linspace(kp[e[k][1]], kp[e[k][2]])
        phi20 == Arg(np - 1)
        phi21 == Arg(0)
        phi10 == Arg(a1 + a2 + 2 * af)
        phi11 == Arg(a1 + a2)
    IN  << lin(0), lin(1), lin(2), lin(3), lin(4), lin(5),
           Reversed(PointsSlice(a1 + 2 * a2 + 2 * af, np, np)),
           Reversed(PointsSlice(a1 + a2 + 2 * af, a1 + 2 * a2 + 2 * af + 1, np)),
           PointsSlice(0, a1 + 1, np),
           PointsSlice(a1, a1 + a2 + 1, np),
           Arc(prof, <<"ra">>, phi20, <<"phi00">>),
           lin(11),
           lin(12),
           Arc(prof, OuterRadius(od), phi10, <<"phi00">>),
           Arc(prof, <<"ra">>, <<"phi01">>, phi21),
           lin(15),
           lin(16),
           Arc(prof, OuterRadius(od), <<"phi01">>, phi11),
           lin(18),
           lin(19),
           lin(20),
           PointsSlice(a1 + a2 + af, a1 + a2 + 2 * af + 1, np),
           PointsSlice(a1 + a2, a1 + a2 + af + 1, np),
           Arc(prof, OuterRadius(od), <<"pi/2">>, phi10),
           Arc(prof, OuterRadius(od), phi11, <<"pi/2">>) >>

-----------------------------------------------------------------------------
(* QuadrangleMesh.sub_domain_mesh_generator(half_edge, key_points, line).   *)
(* Node order: the key points, then the interior samples of every line in   *)
(* line order, then the interior nodes of every sub-region in region order. *)
(* Every sub-region is filled with the structured grid its boundary         *)
(* samples span.                                                            *)

RECURSIVE SumTo(_, _)
\* f[0] + ... + f[n - 1]
SumTo(f, n) == IF n <= 0 THEN 0 ELSE f[n - 1] + SumTo(f, n - 1)

\* the origin of half-edge h: the destination of its opposite
HalfOrigin(he, h) == he[he[h][5]][1]

\* the index of the first interior node of line k
EdgeInteriorBase(ln, kn, k) == kn + SumTo([q \in DOMAIN ln |-> ln[q] - 2], k)

\* the node at sample s (0 .. samples-1) of half-edge h, walked origin to destination
HalfNode(he, ln, kn, h, s) ==
    LET k == h \div 2
        n == ln[k] - 1
    IN  IF s = 0 THEN HalfOrigin(he, h)
        ELSE IF s = n THEN he[h][1]
        ELSE EdgeInteriorBase(ln, kn, k) + (IF h % 2 = 0 THEN s ELSE n - s) - 1

\* the number of interior sub-regions
RegionNum(he) ==
    LET rs == {he[h][2] : h \in DOMAIN he}
    IN  (CHOOSE r \in rs : \A q \in rs : q <= r) + 1

\* the four half-edges around region r, from its lowest-numbered half-edge
RegionLoop(he, r) ==
    LET h0 == CHOOSE h \in DOMAIN he :
                  /\ he[h][2] = r
                  /\ \A g \in DOMAIN he : he[g][2] = r => h <= g
        h1 == he[h0][3]
        h2 == he[h1][3]
        h3 == he[h2][3]
    IN  <<h0, h1, h2, h3>>

\* the segment counts of region r along its first and its second side
RegionA(he, ln, r) == ln[RegionLoop(he, r)[1] \div 2] - 1
RegionB(he, ln, r) == ln[RegionLoop(he, r)[2] \div 2] - 1

\* the index of the first interior node of region r
RegionInteriorBase(he, ln, kn, r) ==
    EdgeInteriorBase(ln, kn, Cardinality(DOMAIN ln))
    + SumTo([q \in 0..(RegionNum(he) - 1) |->
                (RegionA(he, ln, q) - 1) * (RegionB(he, ln, q) - 1)], r)

\* the number of nodes of the single-tooth mesh
MeshNodeNum(he, ln, kn) == RegionInteriorBase(he, ln, kn, RegionNum(he))

\* the grid node (x, y) of region r, 0 <= x <= A, 0 <= y <= B
GridNode(he, ln, kn, r, x, y) ==
    LET lp == RegionLoop(he, r)
        a  == RegionA(he, ln, r)
        b  == RegionB(he, ln, r)
    IN  IF y = 0 THEN HalfNode(he, ln, kn, lp[1], x)
        ELSE IF x = a THEN HalfNode(he, ln, kn, lp[2], y)
        ELSE IF y = b THEN HalfNode(he, ln, kn, lp[3], a - x)
        ELSE IF x = 0 THEN HalfNode(he, ln, kn, lp[4], b - y)
        ELSE RegionInteriorBase(he, ln, kn, r) + (x - 1) * (b - 1) + (y - 1)

\* the cells of region r, as a sequence
RegionCells(he, ln, kn, r) ==
    LET a == RegionA(he, ln, r)
        b == RegionB(he, ln, r)
    IN  [c \in 1..(a * b) |->
            LET x == (c - 1) \div b
                y == (c - 1) % b
            IN  << GridNode(he, ln, kn, r, x, y),
                   GridNode(he, ln, kn, r, x + 1, y),
                   GridNode(he, ln, kn, r, x + 1, y + 1),
                   GridNode(he, ln, kn, r, x, y + 1) >>]

RECURSIVE CellsUpTo(_, _, _, _)
\* the cells of regions 0 .. r-1
CellsUpTo(he, ln, kn, r) ==
    IF r <= 0 THEN << >>
    ELSE CellsUpTo(he, ln, kn, r - 1) \o RegionCells(he, ln, kn, r - 1)

\* quad_mesh.cell
MeshCells(he, ln, kn) == CellsUpTo(he, ln, kn, RegionNum(he))

\* quad_mesh.node: node j of the tooth, not rotated
MeshNodes(he, ln, kn) == [q \in 1..MeshNodeNum(he, ln, kn) |-> <<0, q - 1>>]

-----------------------------------------------------------------------------
(* Rotational stitching *)

\* a[lo:] += d
AddTail(a, lo, d) == [j \in DOMAIN a |-> IF lo <= j THEN a[j] + d ELSE a[j]]

\* the rows lo .. hi-1 of a node array held as a sequence
SliceSeq(nodes, lo, hi) ==
    [q \in 1..SliceLen(lo, hi, Len(nodes)) |-> nodes[lo + q]]

\* the rows lo .. of a node array held as a sequence
TailSeq(nodes, lo) == SliceSeq(nodes, lo, Len(nodes))

\* np.einsum('ij,jn->in', rot_matrix, nodes.T).T with rot_matrix built from rot_phi[r]
Rotate(nodes, r) == [q \in DOMAIN nodes |-> <<nodes[q][1] + r, nodes[q][2]>>]

\* trans_matrix[origin_cell]
MapCells(tm, cells) ==
    [c \in DOMAIN cells |-> [q \in 1..4 |-> tm[cells[c][q]]]]

\* the `z` that sizes rot_phi and bounds the loop: the module-level name in
\* ExternalGear.generate_mesh, self.z in InternalGear.generate_mesh
LoopZ == IF gear = "External" THEN mod_z ELSE z

(* ExternalGear, delta_angle < 1e-12 *)

ExtDegSingleNodeNum(len) == len - (n3 + 1)

ExtDegTempNode(nodes) ==
    SliceSeq(nodes, 2, key_num) \o TailSeq(nodes, key_num + (n3 - 1))

\* ExtDegTempNodeLast without key point 10
ExtDegTempNodeLastShort(nodes) ==
    SliceSeq(nodes, 2, 4)
    \o SliceSeq(nodes, 5, 10)
    \o SliceSeq(nodes, key_num + (n3 - 1), key_num + 2 * (n1 + n2 + n3 - 3))
    \o TailSeq(nodes, key_num + 2 * (n1 + n2 + n3 - 3) + n3 - 1)

ExtDegTempNodeLast(nodes) ==
    SliceSeq(nodes, 2, 4)
    \o SliceSeq(nodes, 5, 11)
    \o SliceSeq(nodes, key_num + (n3 - 1), key_num + 2 * (n1 + n2 + n3 - 3))
    \o TailSeq(nodes, key_num + 2 * (n1 + n2 + n3 - 3) + n3 - 1)

ExtDegLeft(tm) ==
    LET t1 == Put(tm, 0, tm[11])
        t2 == Put(t1, 1, t1[4])
        t3 == CopySlice(t2, key_num, key_num + n3 - 1,
                        t2, key_num + 2 * (n3 + n1 + n2 - 3))
        t4 == AddSlice(t3, 2, key_num, single_node_num + n3 - 1)
    IN  AddTail(t4, key_num + n3 - 1, single_node_num)

ExtDegMiddle(tm) ==
    LET t1 == Put(tm, 0, tm[11])
        t2 == Put(t1, 1, t1[4])
        t3 == CopySlice(t2, key_num, key_num + n3 - 1,
                        t2, key_num + 2 * (n3 + n1 + n2 - 3))
        t4 == AddSlice(t3, 2, key_num, single_node_num)
    IN  AddTail(t4, key_num + n3 - 1, single_node_num)

ExtDegRight(tm, otm) ==
    LET t1 == Put(tm, 0, tm[11])
        t2 == Put(t1, 1, t1[4])
        t3 == Put(t2, 11, otm[0])
        t4 == Put(t3, 4, otm[1])
        t5 == CopySlice(t4, key_num, key_num + n3 - 1,
                        t4, key_num + 2 * (n3 + n1 + n2 - 3))
        t6 == CopySlice(t5, key_num + 2 * (n3 + n1 + n2 - 3),
                        key_num + 2 * (n3 + n1 + n2 - 3) + n3 - 1,
                        otm, key_num)
        t7 == AddSlice(t6, 2, 4, single_node_num)
        t8 == AddSlice(t7, 5, 11, single_node_num - 1)
        t9 == AddSlice(t8, key_num + (n3 - 1), key_num + 2 * (n1 + n2 + n3 - 3),
                       single_node_num - 2)
    IN  AddTail(t9, key_num + 2 * (n1 + n2 + n3 - 3) + n3 - 1,
                single_node_num - 2 - (n3 - 1))

(* ExternalGear, delta_angle >= 1e-12 *)

ExtNormEdgeNodeNum ==
    (na - 1) * 8 + (n2 - 1) * 3 + (n1 - 1) * 3 + (n3 - 1) * 5 + (nf - 1) * 4

ExtNormSingleNodeNum(len) == len - (n3 + 1)

\* len(key_points) + edge_node_num - (4 * (nf - 1) + 2 * (n3 - 1))
ExtNormLeftLo == key_num + ExtNormEdgeNodeNum - (4 * (nf - 1) + 2 * (n3 - 1))

\* len(key_points) + edge_node_num - (4 * (nf - 1) + (n3 - 1))
ExtNormRightLo == key_num + ExtNormEdgeNodeNum - (4 * (nf - 1) + (n3 - 1))

\* len(key_points) + edge_node_num - (4 * (nf - 1))
ExtNormRightHi == key_num + ExtNormEdgeNodeNum - (4 * (nf - 1))

ExtNormTempNode(nodes) ==
    SliceSeq(nodes, 0, 12)
    \o SliceSeq(nodes, 14, ExtNormLeftLo)
    \o TailSeq(nodes, ExtNormRightLo)

ExtNormTempNodeLast(nodes) ==
    SliceSeq(nodes, 0, 12)
    \o SliceSeq(nodes, 16, ExtNormLeftLo)
    \o TailSeq(nodes, ExtNormRightHi)

\* ExtNormLeft without the 2 that accounts for key points 12 and 13
ExtNormLeftNoKeyShift(tm) ==
    LET t1 == Put(tm, 12, tm[14])
        t2 == Put(t1, 13, t1[15])
        t3 == CopySlice(t2, ExtNormLeftLo, ExtNormRightLo, t2, ExtNormRightLo)
        t4 == AddSlice(t3, 0, 12, single_node_num + (n3 - 1))
        t5 == AddSlice(t4, 14, ExtNormLeftLo, single_node_num + (n3 - 1))
    IN  AddTail(t5, ExtNormRightLo, single_node_num)

ExtNormLeft(tm) ==
    LET t1 == Put(tm, 12, tm[14])
        t2 == Put(t1, 13, t1[15])
        t3 == CopySlice(t2, ExtNormLeftLo, ExtNormRightLo, t2, ExtNormRightLo)
        t4 == AddSlice(t3, 0, 12, single_node_num + (n3 - 1) + 2)
        t5 == AddSlice(t4, 14, ExtNormLeftLo, single_node_num + (n3 - 1))
    IN  AddTail(t5, ExtNormRightLo, single_node_num)

ExtNormMiddle(tm) ==
    LET t1 == Put(tm, 12, tm[14])
        t2 == Put(t1, 13, t1[15])
        t3 == CopySlice(t2, ExtNormLeftLo, ExtNormRightLo, t2, ExtNormRightLo)
        t4 == AddSlice(t3, 0, 12, single_node_num)
        t5 == AddSlice(t4, 14, ExtNormLeftLo, single_node_num)
    IN  AddTail(t5, ExtNormRightLo, single_node_num)

ExtNormRight(tm, otm) ==
    LET t1 == Put(tm, 12, tm[14])
        t2 == Put(t1, 13, t1[15])
        t3 == Put(t2, 14, otm[12])
        t4 == Put(t3, 15, otm[13])
        t5 == CopySlice(t4, ExtNormLeftLo, ExtNormRightLo, t4, ExtNormRightLo)
        t6 == CopySlice(t5, ExtNormRightLo, ExtNormRightHi, otm, ExtNormLeftLo)
        t7 == AddSlice(t6, 0, 12, single_node_num)
        t8 == AddSlice(t7, 16, ExtNormLeftLo, single_node_num - 2)
    IN  AddTail(t8, ExtNormRightHi, single_node_num - (n3 - 1) - 2)

(* InternalGear, both branches: the same statements, len(key_points) 14 or 18 *)

\* IntSingleNodeNum counting the interior nodes only: the four key points of
\* the left boundary are not subtracted
IntSingleNodeNumNoKeys(len) == len - (n1 + n2 + n3 - 3)

IntSingleNodeNum(len) == len - (n1 + n2 + n3 + 1)

IntTempNode(nodes) ==
    SliceSeq(nodes, 4, key_num) \o TailSeq(nodes, key_num + (n1 + n2 + n3 - 3))

IntTempNodeLast(nodes) ==
    SliceSeq(nodes, 8, key_num) \o TailSeq(nodes, key_num + 2 * (n1 + n2 + n3 - 3))

\* IntLinkKeyPoints with trans_matrix[1] taken from trans_matrix[4]
IntLinkKeyPointsTypo(tm) ==
    LET t1 == Put(tm, 0, tm[4])
        t2 == Put(t1, 1, t1[4])
        t3 == Put(t2, 2, t2[6])
    IN  Put(t3, 3, t3[7])

\* trans_matrix[0..3] = trans_matrix[4..7], one statement after the other
IntLinkKeyPoints(tm) ==
    LET t1 == Put(tm, 0, tm[4])
        t2 == Put(t1, 1, t1[5])
        t3 == Put(t2, 2, t2[6])
    IN  Put(t3, 3, t3[7])

IntLeft(tm) ==
    LET t4 == IntLinkKeyPoints(tm)
        t5 == CopySlice(t4, key_num, key_num + (n1 + n2 + n3 - 3),
                        t4, key_num + (n1 + n2 + n3 - 3))
        t6 == AddSlice(t5, 4, key_num, single_node_num + (n1 + n2 + n3 - 3))
    IN  AddTail(t6, key_num + (n1 + n2 + n3 - 3), single_node_num)

\* IntMiddle with the key points shifted by one less than the rest
IntMiddleKeyShiftOff(tm) ==
    LET t4 == IntLinkKeyPoints(tm)
        t5 == CopySlice(t4, key_num, key_num + (n1 + n2 + n3 - 3),
                        t4, key_num + (n1 + n2 + n3 - 3))
        t6 == AddSlice(t5, 4, key_num, single_node_num - 1)
    IN  AddTail(t6, key_num + (n1 + n2 + n3 - 3), single_node_num)

IntMiddle(tm) ==
    LET t4 == IntLinkKeyPoints(tm)
        t5 == CopySlice(t4, key_num, key_num + (n1 + n2 + n3 - 3),
                        t4, key_num + (n1 + n2 + n3 - 3))
        t6 == AddSlice(t5, 4, key_num, single_node_num)
    IN  AddTail(t6, key_num + (n1 + n2 + n3 - 3), single_node_num)

\* IntRight with the tail shifted by one too many
IntRightTailOff(tm, otm) ==
    LET t4  == IntLinkKeyPoints(tm)
        t5  == Put(t4, 4, otm[0])
        t6  == Put(t5, 5, otm[1])
        t7  == Put(t6, 6, otm[2])
        t8  == Put(t7, 7, otm[3])
        t9  == CopySlice(t8, key_num, key_num + (n1 + n2 + n3 - 3),
                         t8, key_num + (n1 + n2 + n3 - 3))
        t10 == CopySlice(t9, key_num + (n1 + n2 + n3 - 3),
                         key_num + 2 * (n1 + n2 + n3 - 3), otm, key_num)
        t11 == AddSlice(t10, 8, key_num, single_node_num - 4)
    IN  AddTail(t11, key_num + 2 * (n1 + n2 + n3 - 3),
                single_node_num - (n1 + n2 + n3))

IntRight(tm, otm) ==
    LET t4  == IntLinkKeyPoints(tm)
        t5  == Put(t4, 4, otm[0])
        t6  == Put(t5, 5, otm[1])
        t7  == Put(t6, 6, otm[2])
        t8  == Put(t7, 7, otm[3])
        t9  == CopySlice(t8, key_num, key_num + (n1 + n2 + n3 - 3),
                         t8, key_num + (n1 + n2 + n3 - 3))
        t10 == CopySlice(t9, key_num + (n1 + n2 + n3 - 3),
                         key_num + 2 * (n1 + n2 + n3 - 3), otm, key_num)
        t11 == AddSlice(t10, 8, key_num, single_node_num - 4)
    IN  AddTail(t11, key_num + 2 * (n1 + n2 + n3 - 3),
                single_node_num - (n1 + n2 + n3 + 1))

(* the statements of the branch the instance takes *)

SingleNodeNum(len) ==
    IF gear = "External"
    THEN (IF first_branch THEN ExtDegSingleNodeNum(len) ELSE ExtNormSingleNodeNum(len))
    ELSE IntSingleNodeNum(len)

TempNode(nodes) ==
    IF gear = "External"
    THEN (IF first_branch THEN ExtDegTempNode(nodes) ELSE ExtNormTempNode(nodes))
    ELSE IntTempNode(nodes)

TempNodeLast(nodes) ==
    IF gear = "External"
    THEN (IF first_branch THEN ExtDegTempNodeLast(nodes) ELSE ExtNormTempNodeLast(nodes))
    ELSE IntTempNodeLast(nodes)

LeftRemap(tm) ==
    IF gear = "External"
    THEN (IF first_branch THEN ExtDegLeft(tm) ELSE ExtNormLeft(tm))
    ELSE IntLeft(tm)

MiddleRemap(tm) ==
    IF gear = "External"
    THEN (IF first_branch THEN ExtDegMiddle(tm) ELSE ExtNormMiddle(tm))
    ELSE IntMiddle(tm)

RightRemap(tm, otm) ==
    IF gear = "External"
    THEN (IF first_branch THEN ExtDegRight(tm, otm) ELSE ExtNormRight(tm, otm))
    ELSE IntRight(tm, otm)

-----------------------------------------------------------------------------
(* The constructor *)

\* 2 * pi in thousandths, rounded down: v < 2 * pi iff 1000 v <= TwoPiMilli
TwoPiMilli == 6283

\* the same conversion with the threshold at pi (3.141) instead of 2 * pi
NormalizeAngleAtPi(v) ==
    IF v <= 3141 THEN <<v, "rad">> ELSE <<v, "deg->rad">>

\* x if x < 2 * pi else radians(x), for x = v / 1000: the value stored is v / 1000
\* ("rad") or v / 1000 * pi / 180 ("deg->rad")
NormalizeAngle(v) ==
    IF v <= TwoPiMilli THEN <<v, "rad">> ELSE <<v, "deg->rad">>

\* the second disjunct of the type check alone
TypeCheckFailsIsIntegerOnly(zarg) ==
    zarg.type = "float" /\ zarg.twice % 2 # 0

\* not isinstance(z, int) or (isinstance(z, float) and not z.is_integer()), for an
\* argument of the given type and of value twice / 2
TypeCheckFails(zarg) ==
    \/ zarg.type # "int"
    \/ zarg.type = "float" /\ zarg.twice % 2 # 0

\* the attributes Gear.__init__ and the subclass constructor store
AllAttrs(g) ==
    {"m_n", "z", "alpha_n", "beta", "x_n", "hac", "cc", "rcc", "jn", "n1", "n2",
     "n3", "na", "nf", "mesh", "_material", "x_t", "alpha_t", "m_t", "d", "r",
     "d_b", "r_b", "d_a", "r_a", "d_f", "r_f", "rc"}
    \cup (IF g = "External"
          THEN {"inner_diam", "chamfer_dia", "effective_da", "effective_ra",
                "ha_cutter"}
          ELSE {"outer_diam", "z_cutter", "xn_cutter", "d_cutter", "r_cutter",
                "db_cutter", "rb_cutter", "da_cutter", "ra_cutter", "df_cutter",
                "rf_cutter", "etab", "t"})

\* self.d * cos(self.beta) = m_n * z: the sign of the pitch diameter, and with it
\* of the base diameter d * cos(alpha_t)
PitchSign == m_n * z

Segs == 1..MaxSeg

\* (x_n, hac and cc are in thousandths)
\* the arguments the script at the end of the module passes: z, the segment
\* counts and outer_diam from the loaded parameters, here with m_n = 2, a
\* pressure angle of 20 (degrees) and no helix angle
MainArgs(zz, a1, a2, a3, aa, af) ==
    [z |-> [type |-> "int", twice |-> 2 * zz], m_n |-> 2, alpha_n |-> 20000,
     beta |-> 0, x_n |-> 0, hac |-> 1000, cc |-> 250, n1 |-> a1, n2 |-> a2,
     n3 |-> a3, na |-> aa, nf |-> af, outer_diam |-> 1]

\* the arguments a caller may pass
ZArgs ==
    {[type |-> "int", twice |-> 2 * v] : v \in ((-1)..MaxZ) \cup {20}}
    \cup {[type |-> "float", twice |-> w] : w \in {4, 5}}
    \cup {[type |-> "str", twice |-> 0]}

AngleArgs == {-1000, 0, 349, 3500, 6283, 6284, 20000}

CtorArgs ==
    [z : ZArgs, m_n : {-1, 0, 2}, alpha_n : AngleArgs, beta : {0, 524, 30000},
     x_n : {-500, 0, 1500}, hac : {1000}, cc : {250},
     n1 : Segs, n2 : {1}, n3 : {1}, na : {1}, nf : Segs, outer_diam : {1}]

\* no call of generate_mesh or get_profile_points has been made
NothingCalled ==
    /\ first_branch = branch_test
    /\ profile_len = 0
    /\ last_sel = "none"
    /\ first_sel = "none"
    /\ first_points = 0
    /\ solves = 0
    /\ first_mesh = [nodes |-> 0, cells |-> 0]
    /\ key_points = << >>
    /\ edge = << >>
    /\ half_edge = << >>
    /\ line = << >>
    /\ line_ends = << >>
    /\ key_num = 0
    /\ origin_cell = << >>
    /\ tooth_node = << >>
    /\ tooth_cell = << >>
    /\ trans_matrix = << >>
    /\ origin_trans_matrix = << >>
    /\ single_node_num = 0
    /\ temp_node = << >>
    /\ temp_node_last = << >>
    /\ i = 0
    /\ copies = << >>
    /\ ainv_x = 0 /\ alpha = 0 /\ temp = 0
    /\ mesh = None

\* before the constructor runs: nothing is stored on the instance
InitCtor ==
    /\ gear \in {"External", "Internal"}
    /\ args \in CtorArgs
    /\ attrs = {}
    /\ z = 0
    /\ n1 = 0 /\ n2 = 0 /\ n3 = 0 /\ na = 0 /\ nf = 0
    /\ m_n = 0
    /\ alpha_n = <<0, "rad">> /\ beta = <<0, "rad">>
    /\ outer_diam = 0
    /\ self_t = "absent"
    /\ converges = TRUE
    /\ branch_test \in BOOLEAN
    /\ refit_branch = branch_test
    /\ mod_z = 0 /\ mod_outer_diam = 0 /\ module_defines = {}
    /\ pc = "new"
    /\ NothingCalled

\* Gear.__init__ passes its type check and stores every field, then the subclass
\* constructor stores its own; InternalGear.__init__ ends with self.t = fsolve(..)
Construct ==
    /\ pc = "new"
    /\ ~TypeCheckFails(args.z)
    /\ pc' = "start"
    /\ z' = args.z.twice \div 2
    /\ m_n' = args.m_n
    /\ alpha_n' = NormalizeAngle(args.alpha_n)
    /\ beta' = NormalizeAngle(args.beta)
    /\ n1' = args.n1 /\ n2' = args.n2 /\ n3' = args.n3 /\ na' = args.na
    /\ nf' = args.nf
    /\ outer_diam' = IF gear = "Internal" THEN args.outer_diam ELSE outer_diam
    /\ attrs' = AllAttrs(gear)
    /\ self_t' = IF gear = "Internal" THEN "ctor" ELSE "absent"
    /\ UNCHANGED <<gear, args, converges, refit_branch, module_names, ainv_locals,
                   branch_test,
                   profile_len, last_sel, first_sel, first_points, solves, locals,
                   first_mesh, mesh>>

\* raise TypeError, the first statement of Gear.__init__
ConstructRaise ==
    /\ pc = "new"
    /\ TypeCheckFails(args.z)
    /\ pc' = "ctor_raised"
    /\ UNCHANGED <<instance, module_names, ainv_locals, profile_state, locals, first_mesh, mesh>>

NextCtor ==
    \/ Construct
    \/ ConstructRaise

SpecCtor == InitCtor /\ [][NextCtor]_vars

-----------------------------------------------------------------------------
(* The derived quantities the constructors store, as functions of the stored *)
(* fields.  Lengths and coefficients are in thousandths; cosines are in      *)
(* thousandths, tabulated for the angles the constructor is called with.     *)

\* cos of a stored angle
Cos(a) ==
    CASE a = <<-1000, "rad">> -> 540
      [] a = <<0, "rad">> -> 1000
      [] a = <<349, "rad">> -> 940
      [] a = <<524, "rad">> -> 866
      [] a = <<3500, "rad">> -> -936
      [] a = <<6283, "rad">> -> 1000
      [] a = <<6284, "deg->rad">> -> 994
      [] a = <<20000, "deg->rad">> -> 940
      [] a = <<30000, "deg->rad">> -> 866

\* cos(alpha_t) for alpha_t = arctan(tan(alpha_n) / cos(beta)); arctan returns an
\* angle in (-pi/2, pi/2), so the cosine is positive
CosAlphaT(a, b) ==
    LET helix == Cos(b) # 1000
    IN  CASE a = <<-1000, "rad">> -> IF helix THEN 486 ELSE 540
          [] a = <<0, "rad">> -> 1000
          [] a = <<349, "rad">> -> IF helix THEN 922 ELSE 940
          [] a = <<3500, "rad">> -> IF helix THEN 918 ELSE 936
          [] a = <<6283, "rad">> -> 1000
          [] a = <<6284, "deg->rad">> -> IF helix THEN 992 ELSE 994
          [] a = <<20000, "deg->rad">> -> IF helix THEN 922 ELSE 940

\* self.x_t = self.x_n / cos(self.beta)
x_t == (args.x_n * 1000) \div Cos(beta)

\* self.m_t = self.m_n / cos(self.beta)
m_t == (m_n * 1000000) \div Cos(beta)

\* self.d = self.m_t * self.z; self.r = self.d / 2
self_d == m_t * z

self_r == self_d \div 2

\* self.d_b = self.d * cos(self.alpha_t); self.r_b = self.d_b / 2
d_b == (self_d * CosAlphaT(alpha_n, beta)) \div 1000

r_b == d_b \div 2

\* ha: m_n * (hac + x_t) in ExternalGear, m_n * (hac - x_n) in InternalGear
ha(g) ==
    IF g = "External" THEN m_n * (args.hac + x_t) ELSE m_n * (args.hac - args.x_n)

\* hf: m_n * (hac + cc - x_t) in ExternalGear, m_n * (hac + cc + x_n) in
\* InternalGear
hf(g) ==
    IF g = "External" THEN m_n * (args.hac + args.cc - x_t)
    ELSE m_n * (args.hac + args.cc + args.x_n)

\* the tip diameter with the signs of the two constructors exchanged
d_a_Swapped(g) ==
    IF g = "External" THEN self_d - 2 * ha(g) ELSE self_d + 2 * ha(g)

\* self.d_a = self.d + 2 * ha (ExternalGear), self.d - 2 * ha (InternalGear)
d_a(g) ==
    IF g = "External" THEN self_d + 2 * ha(g) ELSE self_d - 2 * ha(g)

r_a(g) == d_a(g) \div 2

\* self.d_f = self.d - 2 * hf (ExternalGear), self.d + 2 * hf (InternalGear)
d_f(g) ==
    IF g = "External" THEN self_d - 2 * hf(g) ELSE self_d + 2 * hf(g)

r_f(g) == d_f(g) \div 2

-----------------------------------------------------------------------------
(* The state machine: calls of generate_mesh on a constructed gear *)

\* the instance the script at the end of the module constructs
ConstructedMain ==
    /\ gear \in {"External", "Internal"}
    /\ z \in 1..MaxZ
    /\ n1 \in Segs /\ n2 \in Segs /\ n3 \in Segs /\ na \in Segs /\ nf \in Segs
    /\ args = MainArgs(z, n1, n2, n3, na, nf)
    /\ attrs = AllAttrs(gear)
    /\ m_n = args.m_n
    /\ alpha_n = NormalizeAngle(args.alpha_n)
    /\ beta = NormalizeAngle(args.beta)
    /\ outer_diam = IF gear = "Internal" THEN args.outer_diam ELSE 0
    /\ self_t = IF gear = "Internal" THEN "ctor" ELSE "absent"
    /\ branch_test \in BOOLEAN
    /\ pc = "start"

\* the module namespace of the script: z and outer_diam are the values it passes
ModuleMain ==
    /\ mod_z = z
    /\ mod_outer_diam = outer_diam
    /\ module_defines = {"z", "outer_diam"}

\* rc >= t[2] for the t the else branch of InternalGear.get_profile_points
\* stores when its solve converged: t[2] is then x0, the x coordinate of the
\* centre of the tip fillet, which lies on the side of the flank, x0 <= 0 < rc
RefitConverged ==
    IF gear = "Internal" /\ ~branch_test THEN TRUE ELSE branch_test

Init ==
    /\ ConstructedMain
    /\ converges = TRUE
    /\ refit_branch = RefitConverged
    /\ ModuleMain
    /\ NothingCalled

\* rot_phi = np.linspace(0, 2 * np.pi, z, endpoint=False); rot_phi[1] exists
HasRotPhi1 == LoopZ >= 2

\* the name generate_mesh reads from the module namespace is defined
HasModuleName ==
    IF gear = "External" THEN "z" \in module_defines
    ELSE "outer_diam" \in module_defines

\* "if" or "else" of rc >= t[2]
Sel(b) == IF b THEN "if" ELSE "else"

\* ProfileLen with InternalGear.get_profile_points always in its first branch
ProfileLenArcOnly ==
    IF gear = "External" THEN ExtPointsLen(n1, n2) ELSE IntArcPointsLen(n1, n2)

\* len(points) of the array get_profile_points returns
ProfileLen ==
    IF gear = "External" THEN ExtPointsLen(n1, n2)
    ELSE IF branch_test THEN IntArcPointsLen(n1, n2)
    ELSE IntFilletPointsLen(n1, n2, nf)

\* one call of get_profile_points without the assignment self.t = t
ProfileCallNoStore ==
    /\ profile_len' = ProfileLen
    /\ self_t' = self_t
    /\ branch_test' = branch_test
    /\ last_sel' = IF gear = "Internal" THEN Sel(branch_test) ELSE last_sel
    /\ first_sel' = IF gear = "Internal" /\ first_sel = "none"
                    THEN Sel(branch_test) ELSE first_sel
    /\ first_points' = IF first_points = 0 THEN ProfileLen ELSE first_points
    /\ solves' = IF gear = "Internal" /\ ~branch_test THEN solves + 1 ELSE solves

\* one call of get_profile_points: the else branch of InternalGear stores the
\* solution of its four-unknown system in self.t; fsolve returns its last
\* iterate whether or not it converged
ProfileCall ==
    /\ profile_len' = ProfileLen
    /\ self_t' = IF gear = "Internal" /\ ~branch_test THEN "profile" ELSE self_t
    /\ branch_test' =
          IF gear = "Internal" /\ ~branch_test THEN refit_branch ELSE branch_test
    /\ last_sel' = IF gear = "Internal" THEN Sel(branch_test) ELSE last_sel
    /\ first_sel' = IF gear = "Internal" /\ first_sel = "none"
                    THEN Sel(branch_test) ELSE first_sel
    /\ first_points' = IF first_points = 0 THEN ProfileLen ELSE first_points
    /\ solves' = IF gear = "Internal" /\ ~branch_test THEN solves + 1 ELSE solves

\* h of the last call of get_profile_points: n1 + n2 + 1 (ExternalGear),
\* n1 + n2 or n1 + n2 + nf (InternalGear)
HalfProfileLen ==
    IF gear = "External" THEN n1 + n2 + 1
    ELSE IF last_sel = "if" THEN n1 + n2 ELSE n1 + n2 + nf

\* the array the last call of get_profile_points returned
Points ==
    IF gear = "External" THEN ExtPoints(n1, n2) ELSE IntPoints(HalfProfileLen)

\* key_points, edge, half_edge and line of the branch taken
BuildTopology ==
    /\ pc = "start"
    /\ HasModuleName
    /\ gear = "External" => HasRotPhi1
    /\ pc' = "topology"
    /\ first_branch' = branch_test
    /\ ProfileCall
    /\ key_num' = KeyNum(gear, branch_test)
    /\ key_points' =
          A0(IF gear = "External"
             THEN (IF branch_test THEN ExtDegKeyPoints(n1, n2)
                                  ELSE ExtNormKeyPoints(n1, n2))
             ELSE (IF branch_test
                   THEN IntArcKeyPoints(n1, n2, mod_outer_diam)
                   ELSE IntFilletKeyPoints(n1, n2, nf, mod_outer_diam)))
    /\ edge' = A0(IF gear = "External"
                  THEN (IF branch_test THEN ExtDegEdge ELSE ExtNormEdge)
                  ELSE (IF branch_test THEN IntArcEdge ELSE IntFilletEdge))
    /\ half_edge' =
          IF gear = "External"
          THEN (IF branch_test
                THEN HalfEdgeTable(ExtDegEdge, ExtDegRegion, ExtDegNext, ExtDegPrev)
                ELSE HalfEdgeTable(ExtNormEdge, ExtNormRegion, ExtNormNext, ExtNormPrev))
          ELSE (IF branch_test
                THEN HalfEdgeTable(IntArcEdge, IntArcRegion, IntArcNext, IntArcPrev)
                ELSE HalfEdgeTable(IntFilletEdge, IntFilletRegion, IntFilletNext,
                                   IntFilletPrev))
    /\ line' = A0(IF gear = "External"
                  THEN (IF branch_test THEN ExtDegLine(n1, n2, n3, na)
                                       ELSE ExtNormLine(n1, n2, n3, na, nf))
                  ELSE (IF branch_test THEN IntArcLine(n1, n2, n3, na)
                                       ELSE IntFilletLine(n1, n2, n3, na, nf)))
    /\ line_ends' =
          A0(IF gear = "External"
             THEN (IF branch_test THEN ExtDegLineEnds(n1, n2)
                                  ELSE ExtNormLineEnds(n1, n2))
             ELSE (IF branch_test
                   THEN IntArcLineEnds(n1, n2, mod_outer_diam)
                   ELSE IntFilletLineEnds(n1, n2, nf, mod_outer_diam)))
    /\ UNCHANGED <<instance, module_names, ainv_locals, origin_cell, tooth_node, tooth_cell,
                   trans_matrix, origin_trans_matrix, single_node_num, temp_node,
                   temp_node_last, i, copies, first_mesh, mesh>>

\* the generator call, single_node_num, temp_node, temp_node_last and the two
\* np.arange(len(tooth_node))
GenerateTooth ==
    /\ pc = "topology"
    /\ pc' = "meshed"
    /\ LET nodes == MeshNodes(half_edge, line, key_num)
           cells == MeshCells(half_edge, line, key_num)
       IN  /\ tooth_node' = nodes
           /\ tooth_cell' = cells
           /\ origin_cell' = cells
           /\ single_node_num' = SingleNodeNum(Len(nodes))
           /\ temp_node' = TempNode(nodes)
           /\ temp_node_last' = TempNodeLast(nodes)
           /\ trans_matrix' = Arange(Len(nodes))
           /\ origin_trans_matrix' = Arange(Len(nodes))
           /\ copies' = << [remap |-> Arange(Len(nodes)), base |-> 0, rot |-> 0,
                            nodes |-> nodes] >>
    /\ UNCHANGED <<instance, module_names, ainv_locals, profile_state, first_branch, key_points,
                   edge, half_edge, line, line_ends, key_num, i, first_mesh, mesh>>

\* appends one rotated copy: new_node, new_cell and the two np.concatenate
AppendCopy(tm, newNodes, r) ==
    /\ trans_matrix' = tm
    /\ tooth_node' = tooth_node \o Rotate(newNodes, r)
    /\ tooth_cell' = tooth_cell \o MapCells(tm, origin_cell)
    /\ copies' = Append(copies, [remap |-> tm, base |-> Len(tooth_node), rot |-> r,
                                 nodes |-> Rotate(newNodes, r)])

\* the first rotated copy, rot_phi[1]
LeftTooth ==
    /\ pc = "meshed"
    /\ HasRotPhi1
    /\ pc' = "middle"
    /\ i' = 2
    /\ AppendCopy(LeftRemap(trans_matrix), temp_node, 1)
    /\ UNCHANGED <<instance, module_names, ainv_locals, profile_state, first_branch, key_points,
                   edge, half_edge, line, line_ends, key_num, origin_cell,
                   origin_trans_matrix, single_node_num, temp_node, temp_node_last,
                   first_mesh, mesh>>

\* one pass of `for i in range(2, z - 1)`
MiddleTooth ==
    /\ pc = "middle"
    /\ i < LoopZ - 1
    /\ i' = i + 1
    /\ AppendCopy(MiddleRemap(trans_matrix), temp_node, i)
    /\ UNCHANGED <<instance, module_names, ainv_locals, profile_state, first_branch, key_points,
                   edge, half_edge, line, line_ends, key_num, origin_cell,
                   origin_trans_matrix, single_node_num, temp_node, temp_node_last,
                   pc, first_mesh, mesh>>
\* the last copy without the assignment self.mesh = t_mesh
RightToothNoStore ==
    /\ pc = "middle"
    /\ ~(i < LoopZ - 1)
    /\ pc' = "done"
    /\ AppendCopy(RightRemap(trans_matrix, origin_trans_matrix), temp_node_last, LoopZ - 1)
    /\ mesh' = mesh
    /\ first_mesh' = IF first_mesh.cells = 0
                     THEN [nodes |-> Len(tooth_node'), cells |-> Len(tooth_cell')]
                     ELSE first_mesh
    /\ UNCHANGED <<instance, module_names, ainv_locals, profile_state, first_branch, key_points,
                   edge, half_edge, line, line_ends, key_num, origin_cell,
                   origin_trans_matrix, single_node_num, temp_node, temp_node_last,
                   i>>


\* the last copy, rot_phi[-1], then self.mesh = t_mesh; return t_mesh
RightTooth ==
    /\ pc = "middle"
    /\ ~(i < LoopZ - 1)
    /\ pc' = "done"
    /\ AppendCopy(RightRemap(trans_matrix, origin_trans_matrix), temp_node_last, LoopZ - 1)
    /\ mesh' = [node |-> tooth_node', cell |-> tooth_cell']
    /\ first_mesh' = IF first_mesh.cells = 0
                     THEN [nodes |-> Len(tooth_node'), cells |-> Len(tooth_cell')]
                     ELSE first_mesh
    /\ UNCHANGED <<instance, module_names, ainv_locals, profile_state, first_branch, key_points,
                   edge, half_edge, line, line_ends, key_num, origin_cell,
                   origin_trans_matrix, single_node_num, temp_node, temp_node_last,
                   i>>

\* rot_phi[1] on a rot_phi of one entry: IndexError, generate_mesh returns
\* nothing.  ExternalGear reaches it after get_profile_points, InternalGear
\* after the generator call.
RaiseIndexError ==
    /\ ~HasRotPhi1
    /\ HasModuleName
    /\ \/ gear = "External" /\ pc = "start" /\ ProfileCall
       \/ gear = "Internal" /\ pc = "meshed" /\ UNCHANGED profile_state
    /\ pc' = "raised"
    /\ UNCHANGED <<instance, module_names, ainv_locals, locals, first_mesh, mesh>>

Next ==
    \/ BuildTopology
    \/ GenerateTooth
    \/ LeftTooth
    \/ MiddleTooth
    \/ RightTooth
    \/ RaiseIndexError

Spec == Init /\ [][Next]_vars

-----------------------------------------------------------------------------
(* generate_mesh under any module namespace: the module imported by another  *)
(* program defines neither z nor outer_diam, a script may define them with   *)
(* any value                                                                 *)

OuterDiams == {1, 2}

InitModule ==
    /\ ConstructedMain
    /\ converges = TRUE
    /\ refit_branch = RefitConverged
    /\ module_defines \in {{"z", "outer_diam"}, {}}
    /\ mod_z \in (IF gear = "External" /\ "z" \in module_defines
                  THEN 1..MaxZ ELSE {z})
    /\ mod_outer_diam \in (IF gear = "Internal" /\ "outer_diam" \in module_defines
                           THEN OuterDiams ELSE {outer_diam})
    /\ NothingCalled

\* the name z (ExternalGear, line 288) or outer_diam (InternalGear, lines 879 and
\* 1094) is not defined: NameError, after get_profile_points has run
RaiseNameError ==
    /\ pc = "start"
    /\ ~HasModuleName
    /\ pc' = "name_error"
    /\ ProfileCall
    /\ UNCHANGED <<instance, module_names, ainv_locals, locals, first_mesh, mesh>>

NextModule ==
    \/ Next
    \/ RaiseNameError

SpecModule == InitModule /\ [][NextModule]_vars

-----------------------------------------------------------------------------
(* Any sequence of get_profile_points, generate_mesh and show_mesh calls on   *)
(* one instance                                                              *)

InitCalls ==
    /\ ConstructedMain
    /\ converges = TRUE
    /\ refit_branch = RefitConverged
    /\ ModuleMain
    /\ NothingCalled

\* generate_mesh is called again after it returned or raised: fresh locals
CallAgain ==
    /\ pc \in {"done", "raised"}
    /\ pc' = "start"
    /\ first_branch' = branch_test
    /\ key_points' = << >>
    /\ edge' = << >>
    /\ half_edge' = << >>
    /\ line' = << >>
    /\ line_ends' = << >>
    /\ key_num' = 0
    /\ origin_cell' = << >>
    /\ tooth_node' = << >>
    /\ tooth_cell' = << >>
    /\ trans_matrix' = << >>
    /\ origin_trans_matrix' = << >>
    /\ single_node_num' = 0
    /\ temp_node' = << >>
    /\ temp_node_last' = << >>
    /\ i' = 0
    /\ copies' = << >>
    /\ UNCHANGED <<instance, module_names, ainv_locals, profile_state, first_mesh, mesh>>

\* get_profile_points called by the user, between calls of generate_mesh
GetProfilePoints ==
    /\ pc \in {"start", "done", "raised"}
    /\ ProfileCall
    /\ UNCHANGED <<instance, module_names, ainv_locals, locals, pc, first_mesh, mesh>>

\* show_mesh: raises AssertionError while self.mesh is None, else plots
ShowMesh ==
    /\ pc \in {"start", "done", "raised"}
    /\ UNCHANGED vars

NextCalls ==
    \/ Next
    \/ CallAgain
    \/ GetProfilePoints
    \/ ShowMesh

SpecCalls == InitCalls /\ [][NextCalls]_vars

-----------------------------------------------------------------------------
(* Calls of generate_mesh between which the script assigns the module-level  *)
(* name z, as it does when it builds one gear after another: an ExternalGear *)
(* whose call returned may raise IndexError on the next call.                *)

InitMesh ==
    /\ ConstructedMain
    /\ n3 = 1 /\ na = 1 /\ nf = 1
    /\ converges = TRUE
    /\ refit_branch = RefitConverged
    /\ ModuleMain
    /\ NothingCalled

\* z = ... at module level, between two calls
ModuleAssign ==
    /\ pc \in {"done", "raised"}
    /\ mod_z' \in {1, z} \ {mod_z}
    /\ UNCHANGED <<instance, mod_outer_diam, module_defines, profile_state, locals,
                   ainv_locals, pc, first_mesh, mesh>>

NextMesh ==
    \/ Next
    \/ CallAgain
    \/ ModuleAssign

SpecMesh == InitMesh /\ [][NextMesh]_vars

-----------------------------------------------------------------------------
(* generate_mesh on an instance whose implicit equations fsolve may fail to  *)
(* solve.  fsolve is called without full_output: it returns its last iterate *)
(* and the caller never sees whether it converged.                           *)

InitSolve ==
    /\ ConstructedMain
    /\ converges \in BOOLEAN
    /\ refit_branch \in (IF ~converges /\ gear = "Internal" /\ ~branch_test
                         THEN BOOLEAN ELSE {RefitConverged})
    /\ ModuleMain
    /\ NothingCalled

SpecSolve == InitSolve /\ [][Next]_vars

\* ---------------------------------------------------------------------------
\* InternalGear.ainv: the inverse involute by fixed-point iteration
\* ---------------------------------------------------------------------------

\* np.arctan on floats that are whole thousandths: the value is rounded to the
\* grid, towards zero, and the rounded function is odd and non-decreasing as
\* the library function is; v / (1 + 0.28 v^2) up to 1 and
\* pi/2 - v / (v^2 + 0.28) above
ArcTanPos(v) ==
    IF v <= 1000
    THEN (1000000 * v) \div (1000000 + (28 * v * v) \div 100)
    ELSE (TwoPiMilli \div 4) - (1000000 * v) \div (v * v + 280000)

ArcTanJitter(v) ==
    IF v < 0 THEN -ArcTanPos(-v) ELSE ArcTanPos(v) + 2 * (v % 2)

ArcTan(v) ==
    IF v < 0 THEN -ArcTanPos(-v) ELSE ArcTanPos(v)

\* np.abs
Abs(v) == IF v < 0 THEN -v ELSE v

\* the tolerance 1e-25 of the loop test, in thousandths: below the spacing of
\* the floats the iterates are, so that the test passes for equal iterates only
AinvTol == 0

\* the arguments of ainv: 2 (x_n - xn_cutter) tan(alpha_n) / (z - z_cutter)
\* + tan(alpha_t) - alpha_t is of either sign; inv(20 deg) is 15 thousandths
AinvArgs == (-MaxArg)..MaxArg

\* alphawt = InternalGear.ainv(..): temp = 0; alpha = arctan(x)
AinvCall ==
    /\ pc = "start"
    /\ gear = "Internal"
    /\ \E v \in AinvArgs :
          /\ ainv_x' = v
          /\ temp' = 0
          /\ alpha' = ArcTan(v)
    /\ pc' = "ainv"
    /\ UNCHANGED <<instance, module_names, profile_state, locals, first_mesh, mesh>>

\* one pass of the loop body: temp = alpha; alpha = np.arctan(x + temp)
AinvLoop ==
    /\ pc = "ainv"
    /\ Abs(alpha - temp) > AinvTol
    /\ temp' = alpha
    /\ alpha' = ArcTan(ainv_x + alpha)
    /\ UNCHANGED <<instance, module_names, profile_state, locals, ainv_x, pc,
                   first_mesh, mesh>>

\* the loop test fails: return alpha
AinvReturn ==
    /\ pc = "ainv"
    /\ ~(Abs(alpha - temp) > AinvTol)
    /\ pc' = "ainv_return"
    /\ UNCHANGED <<instance, module_names, profile_state, locals, ainv_locals,
                   first_mesh, mesh>>

InitAinv ==
    /\ InitMesh
    /\ gear = "Internal"

NextAinv ==
    \/ AinvCall
    \/ AinvLoop
    \/ AinvReturn

\* the call runs on: the interpreter executes the next statement
SpecAinv == InitAinv /\ [][NextAinv]_vars /\ WF_vars(NextAinv)

-----------------------------------------------------------------------------
(* The two angular boundaries of the tooth.  Rotating the tooth by one      *)
(* pitch carries its left boundary onto its right boundary: kp_0, kp_1 onto *)
(* kp_11, kp_4 (delta_angle < 1e-12), kp_12, kp_13 onto kp_14, kp_15, and   *)
(* kp0..kp3 (angle phi00) onto kp4..kp7 (angle phi01 = phi00 + 2*pi/z).     *)

LeftEdges ==
    IF gear = "External" THEN (IF first_branch THEN <<0>> ELSE <<17>>)
    ELSE <<0, 1, 2>>

RightEdges ==
    IF gear = "External" THEN (IF first_branch THEN <<6>> ELSE <<18>>)
    ELSE <<3, 4, 5>>

\* the nodes of line k, from edge[k][0] to edge[k][1]
EdgeNodeSeq(k) ==
    [s \in 1..line[k] |-> HalfNode(half_edge, line, key_num, 2 * k, s - 1)]

RECURSIVE ChainNodes(_)
\* the nodes along a chain of edges
ChainNodes(es) ==
    IF es = << >> THEN << >> ELSE EdgeNodeSeq(Head(es)) \o ChainNodes(Tail(es))

LeftSeq == ChainNodes(LeftEdges)
RightSeq == ChainNodes(RightEdges)

\* the set of the entries of a sequence
SeqSet(sq) == {sq[q] : q \in DOMAIN sq}

\* The position of a node: local node j turned by r pitches, where a left-boundary
\* node turned by r pitches is the matching right-boundary node turned by r - 1.
Canon(lbl, ls, rs, zz) ==
    IF \E q \in DOMAIN ls : ls[q] = lbl[2]
    THEN << (lbl[1] + zz - 1) % zz, rs[CHOOSE q \in DOMAIN ls : ls[q] = lbl[2]] >>
    ELSE << lbl[1] % zz, lbl[2] >>

Returned == pc = "done"

-----------------------------------------------------------------------------
(* Claims *)

\* C1: for every accepted tooth count z >= 1 and every branch, the mesh that
\* generate_mesh returns has exactly z * C cells, C the cell count of the
\* single-tooth mesh.
C1_CellCount == Returned => Len(mesh.cell) = z * Len(origin_cell)

\* C2: in the returned mesh every node index stored in every cell is a valid
\* index into the final node array, 0 <= index < number of final nodes.
C2_CellIndicesValid ==
    Returned =>
        \A c \in DOMAIN mesh.cell : \A q \in 1..4 :
            0 <= mesh.cell[c][q] /\ mesh.cell[c][q] < Len(mesh.node)

\* a returned ring of at least three teeth whose last copy has a cell on the last
\* node of the array and a cell on a node of copy 0
C2_Witness ==
    /\ Returned
    /\ z >= 3
    /\ \E c \in DOMAIN mesh.cell : \E q \in 1..4 :
           /\ c > (z - 1) * Len(origin_cell)
           /\ mesh.cell[c][q] = Len(mesh.node) - 1
    /\ \E c \in DOMAIN mesh.cell : \E q \in 1..4 :
           /\ c > (z - 1) * Len(origin_cell)
           /\ mesh.cell[c][q] < ArrLen(origin_trans_matrix)

C4_LeftBoundaryReusesPreviousRight ==
    copies # << >> =>
        LET ls == LeftSeq
            rs == RightSeq
        IN  \A c \in DOMAIN copies :
                (2 <= c /\ c <= z) =>
                    /\ \A q \in DOMAIN ls :
                           copies[c].remap[ls[q]] = copies[c - 1].remap[rs[q]]
                    /\ \A q \in DOMAIN copies[c].nodes :
                           copies[c].nodes[q][2] \notin SeqSet(ls)

\* a third copy is built and its left boundary has interior nodes, which it takes
\* from the nodes the second copy appended
C4_Witness ==
    /\ Len(copies) >= 3
    /\ Len(LeftSeq) >= 3
    /\ copies[3].remap[LeftSeq[2]] >= ArrLen(origin_trans_matrix)
    /\ copies[3].remap[LeftSeq[2]] = copies[2].remap[RightSeq[2]]

\* C5: in the last copy (k = z-1) every right-boundary node is mapped to the
\* copy-0 index of the corresponding left-boundary node, and its left-boundary
\* nodes receive the right-boundary indices of copy z-2.
C5_LastCopyClosesRing ==
    Returned =>
        LET ls   == LeftSeq
            rs   == RightSeq
            last == copies[Len(copies)]
        IN  /\ last.rot = z - 1
            /\ \A q \in DOMAIN rs :
                   /\ last.remap[rs[q]] = origin_trans_matrix[ls[q]]
                   /\ last.remap[ls[q]] = copies[z - 1].remap[rs[q]]

\* C6: the final mesh has no duplicate nodes: no two distinct global indices
\* hold the same position (rotation index mod z, local node), the right boundary
\* of copy k identified with the left boundary of copy k+1 cyclically, for every
\* z >= 2 and every branch.
C6_NoDuplicateNodes ==
    (Returned /\ z >= 2) =>
        LET ls == LeftSeq
            rs == RightSeq
        IN  Cardinality({Canon(mesh.node[g], ls, rs, LoopZ) : g \in DOMAIN mesh.node})
                = Len(mesh.node)

\* C7: for every z > 1 the final node count is strictly less than z * L, L the
\* node count of the single-tooth mesh.
C7_NodeCountBelowZL ==
    (Returned /\ z > 1) => Len(mesh.node) < z * ArrLen(origin_trans_matrix)

\* C8: rotating the assembled mesh by one pitch maps its node set onto itself:
\* for every global node at position (k, j) there is a global node at position
\* ((k+1) mod z, j), the last copy's right boundary identified with copy 0's
\* left boundary.
C8_RotationClosure ==
    Returned =>
        LET ls  == LeftSeq
            rs  == RightSeq
            pos == {Canon(mesh.node[g], ls, rs, LoopZ) : g \in DOMAIN mesh.node}
        IN  \A g \in DOMAIN mesh.node :
                Canon(<<mesh.node[g][1] + 1, mesh.node[g][2]>>, ls, rs, LoopZ) \in pos

\* a returned ring of at least three teeth: the nodes of the last copy turn onto
\* nodes of copy 0
C8_Witness ==
    /\ Returned
    /\ z >= 3
    /\ \E g \in DOMAIN mesh.node : mesh.node[g][1] = z - 1
    /\ \E g \in DOMAIN mesh.node : mesh.node[g] = <<0, RightSeq[1]>>

RECURSIVE NextIter(_, _, _)
\* next applied n times to half-edge h
NextIter(he, h, n) == IF n = 0 THEN h ELSE NextIter(he, he[h][3], n - 1)

\* C9: the half-edge table is a valid planar subdivision: opposite is an
\* involution pairing half-edges 2k and 2k+1, next and prev are mutually inverse
\* permutations, the destination of every half-edge is the origin of its next
\* half-edge, and next never leaves the half-edge's region.
C9_HalfEdgeValid ==
    half_edge # << >> =>
        \A h \in DOMAIN half_edge :
            /\ half_edge[h][5] \in DOMAIN half_edge
            /\ half_edge[h][5] \div 2 = h \div 2
            /\ half_edge[h][5] # h
            /\ half_edge[half_edge[h][5]][5] = h
            /\ half_edge[h][3] \in DOMAIN half_edge
            /\ half_edge[h][4] \in DOMAIN half_edge
            /\ half_edge[half_edge[h][3]][4] = h
            /\ half_edge[half_edge[h][4]][3] = h
            /\ half_edge[h][1] = HalfOrigin(half_edge, half_edge[h][3])
            /\ half_edge[half_edge[h][3]][2] = half_edge[h][2]

\* the largest table, InternalGear rc < t[2], has been built
C9_Witness == pc = "topology" /\ ArrLen(half_edge) = 50

\* C10: every interior sub-region 0..R-1 is bounded by a closed loop of exactly
\* four half-edges, a half-edge whose opposite lies in another interior region
\* is shared by exactly those two regions, and the half-edges of region -1 form
\* one closed outer loop.
C10_RegionsAreQuads ==
    half_edge # << >> =>
        LET outer == {h \in DOMAIN half_edge : half_edge[h][2] = -1}
        IN  /\ \A h \in DOMAIN half_edge :
                   half_edge[h][2] \in -1..(RegionNum(half_edge) - 1)
            /\ \A r \in 0..(RegionNum(half_edge) - 1) :
                   LET hs == {h \in DOMAIN half_edge : half_edge[h][2] = r}
                   IN  /\ Cardinality(hs) = 4
                       /\ \A h \in hs :
                              {NextIter(half_edge, h, n) : n \in 0..3} = hs
            /\ \A h \in DOMAIN half_edge :
                   half_edge[h][2] # half_edge[half_edge[h][5]][2]
            /\ \A h \in outer :
                   {NextIter(half_edge, h, n) : n \in 0..(Cardinality(outer) - 1)}
                       = outer

\* a table of eight sub-regions has been built
C10_Witness == pc = "topology" /\ RegionNum(half_edge) = 8 /\ gear = "External"

\* C11: for every edge row k = (a, b) of every branch, the two end samples of
\* line[k] are key_points[a] and key_points[b], one at each end, for all positive
\* n1, n2, n3, na, nf.
C11_LineEndsAtKeyPoints ==
    line_ends # << >> =>
        \A k \in DOMAIN edge :
            LET a == key_points[edge[k][1]]
                b == key_points[edge[k][2]]
            IN  \/ line_ends[k][1] = a /\ line_ends[k][2] = b
                \/ line_ends[k][1] = b /\ line_ends[k][2] = a

\* the tables of the sixteen-key-point branch are built with n1 # n2, and the
\* root-circle arc of line 20 ends on the profile sample that is kp_1
C11_Witness ==
    /\ pc = "topology"
    /\ gear = "External"
    /\ ~first_branch
    /\ n1 # n2
    /\ line_ends[20][2] = key_points[1]
    /\ line_ends[20][2] = Pt(n1 + n2 + 1)

\* C12: in every branch and for all positive n1, n2, n3, na, nf, the two pairs of
\* opposite sides of every interior sub-region's four-edge loop carry lines with
\* equal sample counts.
C12_OppositeSidesMatch ==
    half_edge # << >> =>
        \A h \in DOMAIN half_edge :
            half_edge[h][2] >= 0 =>
                line[h \div 2] = line[NextIter(half_edge, h, 2) \div 2]

\* the tables of the eighteen-key-point branch are built with unequal segment
\* counts
C12_Witness ==
    /\ pc = "topology"
    /\ gear = "Internal"
    /\ ~first_branch
    /\ n1 # n2
    /\ n3 # nf
    /\ na # n3
    /\ \E h \in DOMAIN half_edge : half_edge[h][2] = 7

\* C13: the result of generate_mesh depends only on the instance's own
\* configuration: ExternalGear replicates the tooth according to self.z (the last
\* copy is turned by the last of z angles, and the call fails for want of a
\* second angle only if self.z gives none), InternalGear places the rim points
\* on the circle of self.outer_diam, and no call fails on a module-level name.
C13_OwnConfigurationOnly ==
    /\ pc # "name_error"
    /\ pc = "raised" => z < 2
    /\ (Returned /\ gear = "External") => copies[Len(copies)].rot = z - 1
    /\ (key_points # << >> /\ gear = "Internal") =>
           key_points[3] = <<"polar", OuterRadius(outer_diam), <<"phi00">>>>

\* C14: for an InternalGear every call of get_profile_points and generate_mesh
\* selects the same branch of rc >= t[2] as the first call, returns a profile of
\* as many points as the first, and a mesh of as many nodes and cells as the
\* first.
C14_CallsDeterministic ==
    gear = "Internal" =>
        /\ first_sel # "none" => last_sel = first_sel
        /\ first_points # 0 => profile_len = first_points
        /\ (Returned /\ first_mesh.cells # 0) =>
               /\ Len(mesh.node) = first_mesh.nodes
               /\ Len(mesh.cell) = first_mesh.cells

\* C15: once the constructor has returned, no method changes a configuration
\* field, a derived quantity or the solved parameter vector self.t.
C15_ConfigurationFrozen ==
    [][pc # "new" =>
          UNCHANGED <<gear, args, attrs, z, n1, n2, n3, na, nf, m_n, alpha_n, beta,
                      outer_diam, self_t>>]_vars

\* C16: if an fsolve call fails to converge, get_profile_points and
\* generate_mesh return no profile and no mesh built from the unconverged value,
\* and self.mesh is not set.
C16_SolveFailureAborts ==
    ~converges => (profile_len = 0 /\ ~Returned /\ mesh = None)

\* C17: constructing a gear whose tooth count is not an integer (a value of
\* another type, or a float with a fractional part) raises at construction,
\* before any configuration field or derived quantity is stored on the instance.
C17_NonIntegerRaisesFirst ==
    (args.z.type = "str" \/ args.z.twice % 2 # 0) =>
        /\ pc \in {"new", "ctor_raised"}
        /\ attrs = {}
        /\ z = 0 /\ m_n = 0 /\ n1 = 0 /\ n2 = 0 /\ n3 = 0 /\ na = 0 /\ nf = 0
        /\ self_t = "absent"
        /\ mesh = None

C17_Witness ==
    /\ pc = "ctor_raised"
    /\ args.z = [type |-> "float", twice |-> 5]
    /\ attrs = {}

\* C18: every successfully constructed gear has a strictly positive tooth
\* count; construction with z = 0 or a negative integer z does not succeed.
C18_PositiveToothCount ==
    pc = "start" => z >= 1

\* C19: constructing a gear with m_n <= 0, or with parameters giving a zero or
\* negative base radius, raises at construction instead of yielding a gear.
C19_DegenerateRaises ==
    pc = "start" => (m_n > 0 /\ PitchSign > 0)

\* C20: the pressure angle and the helix angle are normalised on input: a value
\* v >= 2 * pi is stored as v * pi / 180, a value v < 2 * pi is stored unchanged
\* (v in thousandths; 2 * pi lies strictly between 6283 and 6284 thousandths).
C20_AnglesNormalized ==
    pc = "start" =>
        \A f \in {<<args.alpha_n, alpha_n>>, <<args.beta, beta>>} :
            /\ f[1] >= 6284 => f[2] = <<f[1], "deg->rad">>
            /\ f[1] <= 6283 => f[2] = <<f[1], "rad">>

C20_Witness ==
    /\ pc = "start"
    /\ args.alpha_n = 20000 /\ alpha_n = <<20000, "deg->rad">>
    /\ args.beta = 524 /\ beta = <<524, "rad">>

\* the configurations the radii are ordered for: a positive module and tooth
\* count, a positive pressure angle and a helix angle with positive cosines, a
\* non-negative clearance coefficient and a profile shift no larger than the
\* addendum coefficient
ValidRadiiConfig ==
    /\ pc = "start"
    /\ m_n > 0 /\ z >= 1
    /\ alpha_n[1] > 0 /\ Cos(alpha_n) > 0
    /\ Cos(beta) > 0
    /\ args.cc >= 0
    /\ x_t <= args.hac /\ -x_t <= args.hac

\* C21: for every external gear r_b <= r_f <= self_r <= r_a, and for every internal
\* gear r_a <= self_r <= r_f, in particular for the reference gear (m_n = 2, z = 20,
\* pressure angle 20 degrees, helix 0, x_n = 0, hac = 1.0, cc = 0.25).
C21_RadiiOrdered ==
    ValidRadiiConfig =>
        IF gear = "External"
        THEN r_b <= r_f(gear) /\ r_f(gear) <= self_r /\ self_r <= r_a(gear)
        ELSE r_a(gear) <= self_r /\ self_r <= r_f(gear)

\* C21 as amended: for a valid configuration an external gear has r_f <= r <= r_a
\* and r_b <= r, an internal gear has r_a <= r <= r_f; the reference external
\* gear has r_f = 17.5 < r_b = 18.8 < r = 20 < r_a = 22.
C21_RadiiOrderedAmended ==
    ValidRadiiConfig =>
        /\ IF gear = "External"
           THEN r_f(gear) <= self_r /\ self_r <= r_a(gear) /\ r_b <= self_r
           ELSE r_a(gear) <= self_r /\ self_r <= r_f(gear)
        /\ (/\ gear = "External" /\ z = 20 /\ m_n = 2 /\ args.x_n = 0
            /\ alpha_n = <<20000, "deg->rad">> /\ beta = <<0, "rad">>) =>
               /\ r_f(gear) = 17500 /\ r_b = 18800 /\ self_r = 20000
               /\ r_a(gear) = 22000

C21_Witness ==
    /\ ValidRadiiConfig
    /\ gear = "External" /\ z = 20 /\ m_n = 2 /\ args.x_n = 0
    /\ alpha_n = <<20000, "deg->rad">> /\ beta = <<0, "rad">>
    /\ r_f(gear) < r_b

\* C22: self.mesh is None after construction; when generate_mesh returns,
\* self.mesh is the mesh it returned, replacing any earlier one; at every other
\* step, a raise included, self.mesh keeps the value it had before the call.
C22_MeshStoredOnReturn ==
    /\ mesh = None
    /\ [][IF pc # "done" /\ pc' = "done"
          THEN mesh' = [node |-> tooth_node', cell |-> tooth_cell']
          ELSE mesh' = mesh]_vars

\* a call raises on an instance that holds the mesh of an earlier call
C22_Witness ==
    /\ pc = "raised"
    /\ mesh # None
    /\ Len(mesh.cell) = first_mesh.cells

\* q is the mirror image of p in the y axis: q.x = -p.x and q.y = p.y
IsMirror(q, p) == q.x = Neg(p.x) /\ q.y = p.y

\* C23: the profile returned by get_profile_points satisfies, for all i,
\* point[n-1-i].x = -point[i].x and point[n-1-i].y = point[i].y, where n is the
\* half-profile length, for ExternalGear and both InternalGear branches.
C23_ProfileMirrorIndexing ==
    profile_len # 0 =>
        \A j \in 0..(HalfProfileLen - 1) :
            IsMirror(Points[HalfProfileLen - 1 - j], Points[j])

\* C23 as amended: the returned array has profile_len rows; in ExternalGear
\* point[h + i] is the mirror image of point[i] for h = n1 + n2 + 1 and every
\* i < h; in both InternalGear branches point[N - 1 - i] is the mirror image of
\* point[i] for the full length N = 2 h + 1 and every i < N.
C23_ProfileMirrorAmended ==
    profile_len # 0 =>
        /\ DOMAIN Points = 0..(profile_len - 1)
        /\ IF gear = "External"
           THEN \A j \in 0..(HalfProfileLen - 1) :
                    IsMirror(Points[HalfProfileLen + j], Points[j])
           ELSE \A j \in 0..(profile_len - 1) :
                    IsMirror(Points[profile_len - 1 - j], Points[j])

C23_Witness ==
    /\ profile_len # 0
    /\ gear = "Internal" /\ last_sel = "else"
    /\ n1 = 2 /\ nf = 2
    /\ IsMirror(Points[profile_len - 1], Points[0])
    /\ ~IsMirror(Points[HalfProfileLen - 1], Points[0])

C25_KeyPoint5AtCurveJunction ==
    (gear = "External" /\ line_ends # << >>) =>
        LET h == n1 + n2 + 1
            junction == CHOOSE k \in ExtTransitionSamples(n2) :
                            \A j \in ExtTransitionSamples(n2) : j <= k
            tip == CHOOSE k \in ExtInvoluteSamples(n1, n2) :
                       \A j \in ExtInvoluteSamples(n1, n2) : j <= k
        IN  /\ key_points[5] = Pt(junction)
            /\ key_points[2] = Pt(h + junction)
            /\ \A k \in DOMAIN edge :
                   /\ edge[k] = <<4, 5>> =>
                         /\ line[k] = Cardinality(ExtTransitionSamples(n2))
                         /\ line_ends[k] = <<Pt(0), Pt(junction)>>
                   /\ edge[k] = <<5, 6>> =>
                         /\ line[k] = 1 + Cardinality(ExtInvoluteSamples(n1, n2))
                         /\ line_ends[k] = <<Pt(junction), Pt(tip)>>

\* the local nodes the stitcher does not append for a rotated copy
DroppedNodes == {j \in DOMAIN origin_trans_matrix : <<0, j>> \notin SeqSet(temp_node)}

\* the key points at the ends of the edges es
EdgeEnds(es) == UNION {{edge[es[q]][1], edge[es[q]][2]} : q \in DOMAIN es}

\* C26: with the generator numbering key points first and then each edge's
\* interior nodes in line-list order, the nodes the stitcher treats as left and
\* right boundary are exactly the nodes of the left and right boundary edges
\* (interior slices and hard-coded key points, in corresponding order), and
\* single_node_num is the number of nodes appended for each non-last copy, for
\* all positive n1, n2, n3, na, nf.
C26_BoundarySlicesAreBoundaryEdges ==
    Len(copies) >= 2 =>
        LET ls == LeftSeq
            rs == RightSeq
            tm == copies[2].remap
        IN  /\ DroppedNodes = SeqSet(ls)
            /\ {j \in DroppedNodes : j < key_num} = EdgeEnds(LeftEdges)
            /\ {tm[j] : j \in {q \in DroppedNodes : q < key_num}} = EdgeEnds(RightEdges)
            /\ {tm[j] : j \in DroppedNodes} = SeqSet(rs)
            /\ \A q \in DOMAIN ls : tm[ls[q]] = rs[q]
            /\ single_node_num = Len(temp_node)
            /\ \A c \in 2..Len(copies) :
                   (c < Len(copies) \/ pc = "middle") =>
                       Len(copies[c].nodes) = single_node_num

\* the sixteen-key-point branch with interior nodes on the boundary edges 17
\* and 18 and on the root arcs: two copies appended before the last
C26_Witness ==
    /\ gear = "External" /\ ~first_branch
    /\ n3 = 2 /\ nf = 2 /\ n1 # n2
    /\ Len(copies) >= 3 /\ pc = "middle"
    /\ Len(LeftSeq) = 3
    /\ LeftSeq[2] >= key_num
    /\ copies[2].remap[LeftSeq[2]] = RightSeq[2]

\* the indices k of the profile samples points[k] among the symbolic points ps
ProfileIndices(ps) == {p[2] : p \in {q \in ps : q[1] = "points"}}

\* C27: within every call of InternalGear.generate_mesh, whatever calls preceded
\* it, the branch generate_mesh takes is the branch the get_profile_points call
\* inside it takes, so every profile index used for key points and lines lies
\* inside the returned profile array.
C27_BranchesAgreeWithinCall ==
    (gear = "Internal" /\ pc \in {"topology", "meshed", "middle"}) =>
        /\ last_sel = Sel(first_branch)
        /\ \A k \in ProfileIndices({key_points[q] : q \in DOMAIN key_points})
                    \cup ProfileIndices(UNION {{line_ends[q][1], line_ends[q][2]} :
                                                  q \in DOMAIN line_ends}) :
               0 <= k /\ k < profile_len

\* generate_mesh takes the first branch on an instance whose first call took
\* the second, and reads the last sample of the shorter profile
C27_Witness ==
    /\ gear = "Internal" /\ pc = "topology"
    /\ first_sel = "else" /\ first_branch
    /\ profile_len < first_points
    /\ \E q \in DOMAIN key_points : key_points[q] = Pt(profile_len - 1)

\* the set of global indices the remap tm assigns
Image(tm) == {tm[j] : j \in DOMAIN tm}

\* C28: for every z >= 2 and every branch, the remap used for each copy is
\* injective on the local nodes of the single-tooth mesh, so that no cell has
\* two corners with the same global index, and the images of all copies' remaps
\* together are exactly the indices 0..N-1 of the final node array.
C28_RemapsInjectiveAndCover ==
    (Returned /\ z >= 2) =>
        /\ \A c \in DOMAIN copies :
               \A a, b \in DOMAIN copies[c].remap :
                   a # b => copies[c].remap[a] # copies[c].remap[b]
        /\ \A q \in DOMAIN tooth_cell :
               Cardinality({tooth_cell[q][v] : v \in 1..4}) = 4
        /\ UNION {Image(copies[c].remap) : c \in DOMAIN copies}
               = 0..(Len(tooth_node) - 1)

\* a ring of four copies of the eighteen-key-point tooth: the last node of the
\* array is referenced by the last copy only
C28_Witness ==
    /\ Returned
    /\ gear = "Internal" /\ ~first_branch
    /\ z = 4 /\ Len(copies) = 4
    /\ n1 = 2 /\ n3 = 2
    /\ (Len(tooth_node) - 1) \in Image(copies[4].remap)
    /\ (Len(tooth_node) - 1) \notin Image(copies[3].remap)

\* C29: in every branch each boundary line is oriented like its edge row: for
\* every k the first sample of line[k] is key_points[edge[k,0]] and the last
\* sample is key_points[edge[k,1]], the root-arc lines of edges 19-22 of the
\* sixteen-key-point branch of ExternalGear included.
C29_LinesOrientedLikeEdges ==
    line_ends # << >> =>
        \A k \in DOMAIN edge :
            /\ line_ends[k][1] = key_points[edge[k][1]]
            /\ line_ends[k][2] = key_points[edge[k][2]]


=============================================================================
